---- MODULE Spec2Model ----
(***************************************************************************)
(* A model of the ATS scoring engine of the resume analyser:               *)
(*   calculateATSScore and its five sub-score calculators, extractKeywords *)
(*   and generateInsights (utils/atsScoring.js).                           *)
(*                                                                         *)
(* A text is a sequence of runs [tok |-> t, n |-> k]: the token t written  *)
(* k times, all tokens of the text joined by single blanks.  Tokens are    *)
(* whitespace-free words, except Tab, which is the tab character itself.   *)
(* The regular expressions of the source are evaluated token by token:     *)
(* the vocabulary holds no token that contains an alternative of a pattern *)
(* as a proper substring, so a pattern matches inside a token exactly when *)
(* the (lower-cased) token is one of its alternatives.                     *)
(***************************************************************************)
EXTENDS Integers, Sequences, FiniteSets, TLC

VARIABLES
  resumeText,         \* argument of calculateATSScore
  jobDescription,     \* argument of calculateATSScore
  pc,                 \* position inside calculateATSScore / generateInsights
  keywordMatchScore,  \* const keywordMatchScore (a rational, unrounded)
  formattingScore,    \* const formattingScore
  readabilityScore,   \* const readabilityScore
  structureScore,     \* const structureScore
  balanceScore,       \* const balanceScore
  thrown,             \* the calculator whose exception reached the catch block
  result,             \* the returned { totalScore, breakdown }
  breakdown,          \* argument of generateInsights
  strengths,          \* const strengths = []
  weaknesses,         \* const weaknesses = []
  ruleBased,          \* the list generateRuleBasedSuggestions builds and returns
  suggestions,        \* const suggestions = [] of generateAISuggestions
  caught,             \* generateAISuggestions' catch block has run
  aiSuggestions,      \* the list generateAISuggestions resolves to
  extractorText,      \* the text handed to the keyword extractors
  scoringKeywords,    \* what extractKeywords(text) returned
  importantKeywords,  \* what extractImportantKeywords(text) returned
  other,              \* the frame of a second invocation of calculateATSScore
  requests,           \* the analyze requests: position, inputs, locals, response
  reportsFile,        \* the reports in reports/reports.json, first to last
  mongoReports,       \* the ids of the reports saved to MongoDB
  savedLog            \* every report written to the file, newest first

scoreVars == <<resumeText, jobDescription, keywordMatchScore, formattingScore,
               readabilityScore, structureScore, balanceScore, thrown, result>>
insightVars == <<breakdown, strengths, weaknesses>>
suggestionVars == <<ruleBased, suggestions, caught, aiSuggestions>>
extractVars == <<extractorText, scoringKeywords, importantKeywords>>
routeVars == <<requests, reportsFile, mongoReports, savedLog>>
laterVars == <<extractVars, other, routeVars>>
auxVars == <<suggestionVars, laterVars>>
vars == <<pc, scoreVars, insightVars, auxVars>>

----------------------------------------------------------------------------
(* Bounds of the explored inputs.                                          *)

Margin == 1        \* word totals are explored this far around each threshold
MaxPronouns == 3   \* most first-person pronouns in a text
MaxVerbs == 6      \* most action verbs in a text
MaxGlyphs == 1     \* most decorative glyphs in a text
MaxDates == 2      \* most date-like substrings in a text
MaxKeywordReps == 6 \* most repetitions of one keyword in a resume
MaxSkills == 31    \* most distinct technical skills in a text
MaxRequests == 2   \* analyze requests in flight at the same time

----------------------------------------------------------------------------
(* Numbers: JavaScript doubles are modelled by exact rationals.            *)

Rat(n, d) == [num |-> n, den |-> d]
RatOfInt(i) == Rat(i, 1)
RatAdd(a, b) == Rat(a.num * b.den + b.num * a.den, a.den * b.den)
RatMul(a, b) == Rat(a.num * b.num, a.den * b.den)
RatLess(a, b) == a.num * b.den < b.num * a.den
RatMin(a, b) == IF RatLess(b, a) THEN b ELSE a

\* Math.round: the nearest integer, halves rounded up.
MathRound(a) == (2 * a.num + a.den) \div (2 * a.den)

MathMin(a, b) == IF b < a THEN b ELSE a
MathMax(a, b) == IF a < b THEN b ELSE a

----------------------------------------------------------------------------
(* Tokens and the patterns of the source, as sets of alternatives.         *)

Tab == "\t"

\* String.prototype.toLowerCase on a token (the capitalised tokens of the
\* vocabulary; every other token is already lower case).
toLowerCase(tok) ==
  CASE tok = "Experience" -> "experience"
    [] tok = "Python" -> "python"
    [] tok = "React" -> "react"
    [] tok = "I" -> "i"
    [] OTHER -> tok

\* /contact|email|phone/i, /summary|objective|profile/i, ...
sections == <<
  {"contact", "email", "phone"},
  {"summary", "objective", "profile"},
  {"experience", "work history", "employment"},
  {"education", "academic", "degree"},
  {"skills", "technical skills", "competencies"} >>

\* /\b(i|me|my|mine)\b/gi
pronounPattern == {"i", "me", "my", "mine"}

\* /\b(managed|led|developed|...|coded)\b/gi
actionVerbPattern ==
  {"managed", "led", "developed", "created", "implemented", "designed", "built",
   "improved", "achieved", "delivered", "coordinated", "analyzed", "optimized",
   "spearheaded", "executed", "established", "initiated", "launched",
   "streamlined", "enhanced", "resolved", "maintained", "supervised", "trained",
   "mentored", "collaborated", "facilitated", "negotiated", "increased",
   "reduced", "transformed", "automated", "integrated", "tested", "debugged",
   "deployed", "architected", "engineered", "programmed", "coded"}

\* /[...]/g, the ten decorative glyphs, each named by its code point.
specialCharPattern ==
  {"U+2605", "U+2606", "U+25CF", "U+25CB", "U+25A0", "U+25A1", "U+25AA",
   "U+25AB", "U+25C6", "U+25C7"}

\* /\b\d{4}\b|\b\d{1,2}\/\d{4}\b|\b(jan|...|dec)\s+\d{4}\b/gi: the tokens of the
\* vocabulary that hold one match (a month name before a year adds none:
\* the year it precedes is the same single match).
dateFormatPattern == {"2019", "2020", "03/2021", "555-123-4567"}

\* /\b(javascript|python|react|...|xd)\b/gi of extractKeywords.
techSkillPattern ==
  {"javascript", "python", "react", "node", "nodejs", "java", "sql", "mysql",
   "postgresql", "mongodb", "aws", "docker", "kubernetes", "git", "typescript",
   "express", "angular", "vue", "html", "css", "scss", "sass", "api", "restful",
   "graphql", "agile", "scrum", "ci/cd", "devops", "machine learning", "ml",
   "ai", "data science", "cloud", "azure", "gcp", "tensorflow", "pytorch",
   "pandas", "numpy", "django", "flask", "spring", "hibernate", "redis",
   "elasticsearch", "jenkins", "ansible", "terraform", "linux", "unix", "bash",
   "powershell", "ruby", "php", "swift", "kotlin", "go", "rust", "scala",
   "perl", "r", "matlab", "sas", "tableau", "power bi", "excel", "word", "jira",
   "confluence", "salesforce", "sap", "oracle", "nosql", "websocket",
   "microservices", "serverless", "blockchain", "iot", "ar", "vr", "unity",
   "unreal", "figma", "sketch", "photoshop", "illustrator", "xd"}

\* compromise(text).nouns(): the tokens the tagger takes for nouns, in
\* lower case (the tagger does not depend on the case of a token); "will"
\* is the noun of "a will".
nounLexicon ==
  {"email", "summary", "experience", "education", "skills", "python", "react",
   "engineer", "certification", "job", "will"}

\* Tokens holding a sentence terminator of /[.!?]+/, and the tokens that
\* hold anything besides terminators and whitespace.
EndsSentence(tok) == tok \in {".", "done."}
HasContent(tok) == tok \notin {Tab, "."}

----------------------------------------------------------------------------
(* String operations on texts.                                             *)

RECURSIVE matchCountOf(_, _)
\* (text.match(/.../g) || []).length for a case-sensitive token pattern.
matchCountOf(text, pattern) ==
  IF text = <<>> THEN 0
  ELSE (IF Head(text).tok \in pattern THEN Head(text).n ELSE 0)
       + matchCountOf(Tail(text), pattern)

RECURSIVE matchCountOfI(_, _)
\* (text.match(/.../gi) || []).length for a case-insensitive token pattern.
matchCountOfI(text, pattern) ==
  IF text = <<>> THEN 0
  ELSE (IF toLowerCase(Head(text).tok) \in pattern THEN Head(text).n ELSE 0)
       + matchCountOfI(Tail(text), pattern)

\* regex.test(text) for a case-insensitive pattern.
regexTestI(text, pattern) ==
  \E i \in DOMAIN text : toLowerCase(text[i].tok) \in pattern

\* text.split(/\s+/).length: one more than the number of whitespace runs.
\* The tokens are joined by blanks, so whitespace runs lie between the
\* non-tab tokens, and before the first and after the last one when the
\* text starts or ends with a tab; the empty string splits into [""].
splitLength(text) ==
  IF text = <<>> THEN 1
  ELSE matchCountOf(text, {t \in {text[i].tok : i \in DOMAIN text} : t # Tab})
       + (IF text[1].tok = Tab THEN 1 ELSE 0)
       + (IF text[Len(text)].tok = Tab THEN 1 ELSE 0)

RECURSIVE sentencesFrom(_, _)
\* text.split(/[.!?]+/).filter(s => s.trim().length > 0).length, scanning the
\* runs; open says that the piece being read holds a non-blank character.
sentencesFrom(text, open) ==
  IF text = <<>> THEN (IF open THEN 1 ELSE 0)
  ELSE LET tok == Head(text).tok
           n == Head(text).n
       IN  IF EndsSentence(tok)
           THEN IF HasContent(tok)
                THEN n + sentencesFrom(Tail(text), FALSE)
                ELSE (IF open THEN 1 ELSE 0) + sentencesFrom(Tail(text), FALSE)
           ELSE sentencesFrom(Tail(text), open \/ HasContent(tok))

sentenceCount(text) == sentencesFrom(text, FALSE)

\* array.includes(x)
includes(array, x) == \E i \in DOMAIN array : array[i] = x

\* keywords.add(x.toLowerCase()) for every token x of text that the pattern
\* (or the tagger's lexicon) accepts, in text order: the accepted words that
\* are not in the set yet are appended at their first occurrence.
addAll(keywords, text, pattern) ==
  LET word(i) == toLowerCase(text[i].tok)
      added == {i \in DOMAIN text :
                  /\ word(i) \in pattern
                  /\ ~includes(keywords, word(i))
                  /\ \A j \in 1..(i - 1) : word(j) # word(i)}
      nth(k) == CHOOSE i \in added : Cardinality({j \in added : j < i}) = k - 1
  IN  keywords \o [k \in 1..Cardinality(added) |-> word(nth(k))]

\* extractKeywords: the nouns, lower-cased, then the technical skills found
\* in the lower-cased text; Array.from(keywords).
extractKeywords(text) ==
  addAll(addAll(<<>>, text, nounLexicon), text, techSkillPattern)

----------------------------------------------------------------------------
(* The five sub-score calculators.                                         *)

\* Mutant of calculateKeywordMatch: the percentage is taken over the resume's
\* keywords instead of the job description's.
calculateKeywordMatchOverResume(resume, jd) ==
  LET jdKeywords == extractKeywords(jd)
      resumeKeywords == extractKeywords(resume)
      matchCount ==
        Cardinality({i \in DOMAIN jdKeywords : includes(resumeKeywords, jdKeywords[i])})
      totalKeywords == Len(resumeKeywords)
      matchPercentage ==
        IF totalKeywords > 0 THEN Rat(matchCount * 100, totalKeywords) ELSE RatOfInt(0)
  IN  RatMin(RatOfInt(100), matchPercentage)

\* 1. Keyword Matching (40%)
calculateKeywordMatch(resume, jd) ==
  LET jdKeywords == extractKeywords(jd)
      resumeKeywords == extractKeywords(resume)
      matchCount ==
        Cardinality({i \in DOMAIN jdKeywords : includes(resumeKeywords, jdKeywords[i])})
      totalKeywords == Len(jdKeywords)
      matchPercentage ==
        IF totalKeywords > 0 THEN Rat(matchCount * 100, totalKeywords) ELSE RatOfInt(0)
  IN  RatMin(RatOfInt(100), matchPercentage)

RECURSIVE sectionPoints(_, _)
\* sections.forEach(regex => { if (regex.test(resumeText)) score += 20 })
sectionPoints(resume, i) ==
  IF i > Len(sections) THEN 0
  ELSE (IF regexTestI(resume, sections[i]) THEN 20 ELSE 0) + sectionPoints(resume, i + 1)

\* Mutant of calculateFormattingScore: the ideal length excludes its ends.
calculateFormattingScoreOpenRange(resume) ==
  LET wordCount == splitLength(resume)
      score == sectionPoints(resume, 1)
               + (IF wordCount > 300 /\ wordCount < 800 THEN 20
                  ELSE IF wordCount > 200 THEN 10 ELSE 0)
  IN  MathMin(100, score)

\* 2. Formatting & Sections Score (20%)
calculateFormattingScore(resume) ==
  LET wordCount == splitLength(resume)
      score == sectionPoints(resume, 1)
               + (IF wordCount >= 300 /\ wordCount <= 800 THEN 20
                  ELSE IF wordCount > 200 THEN 10 ELSE 0)
  IN  MathMin(100, score)

\* Mutant of calculateReadabilityScore: an average of exactly 25 words per
\* sentence already counts as too complex.
calculateReadabilityScoreAtLeast25(resume) ==
  LET pronounCount == matchCountOfI(resume, pronounPattern)
      words == splitLength(resume)
      pronounRatio == Rat(pronounCount, words)
      afterPronouns ==
        IF RatLess(Rat(5, 100), pronounRatio) THEN 100 - 30
        ELSE IF RatLess(Rat(2, 100), pronounRatio) THEN 100 - 15 ELSE 100
      sentences == sentenceCount(resume)
      avgSentenceLength == Rat(words, MathMax(sentences, 1))
      afterSentences ==
        IF ~RatLess(avgSentenceLength, RatOfInt(25)) THEN afterPronouns - 20
        ELSE IF RatLess(avgSentenceLength, RatOfInt(10)) THEN afterPronouns - 10
        ELSE afterPronouns
      actionVerbs == matchCountOfI(resume, actionVerbPattern)
      score ==
        IF actionVerbs >= 5 THEN afterSentences + 20
        ELSE IF actionVerbs >= 3 THEN afterSentences + 10 ELSE afterSentences
  IN  MathMax(0, MathMin(100, score))

\* 3. Grammar & Readability Score (15%)
calculateReadabilityScore(resume) ==
  LET pronounCount == matchCountOfI(resume, pronounPattern)
      words == splitLength(resume)
      pronounRatio == Rat(pronounCount, words)
      afterPronouns ==
        IF RatLess(Rat(5, 100), pronounRatio) THEN 100 - 30
        ELSE IF RatLess(Rat(2, 100), pronounRatio) THEN 100 - 15 ELSE 100
      sentences == sentenceCount(resume)
      avgSentenceLength == Rat(words, MathMax(sentences, 1))
      afterSentences ==
        IF RatLess(RatOfInt(25), avgSentenceLength) THEN afterPronouns - 20
        ELSE IF RatLess(avgSentenceLength, RatOfInt(10)) THEN afterPronouns - 10
        ELSE afterPronouns
      actionVerbs == matchCountOfI(resume, actionVerbPattern)
      score ==
        IF actionVerbs >= 5 THEN afterSentences + 20
        ELSE IF actionVerbs >= 3 THEN afterSentences + 10 ELSE afterSentences
  IN  MathMax(0, MathMin(100, score))

\* Mutant of calculateStructureScore: the result is not capped at 100.
calculateStructureScoreUncapped(resume) ==
  LET specialChars == matchCountOf(resume, specialCharPattern)
      afterChars == IF specialChars > 0 THEN 100 - 30 ELSE 100
      tabs == matchCountOf(resume, {Tab})
      afterTabs == IF tabs > 10 THEN afterChars - 20 ELSE afterChars
      dateFormats == matchCountOfI(resume, dateFormatPattern)
      score == IF dateFormats >= 2 THEN afterTabs + 10 ELSE afterTabs
  IN  MathMax(0, score)

\* Mutant of calculateStructureScore: ten tabs already count as a table.
calculateStructureScoreTenTabs(resume) ==
  LET specialChars == matchCountOf(resume, specialCharPattern)
      afterChars == IF specialChars > 0 THEN 100 - 30 ELSE 100
      tabs == matchCountOf(resume, {Tab})
      afterTabs == IF tabs >= 10 THEN afterChars - 20 ELSE afterChars
      dateFormats == matchCountOfI(resume, dateFormatPattern)
      score == IF dateFormats >= 2 THEN afterTabs + 10 ELSE afterTabs
  IN  MathMax(0, MathMin(100, score))

\* Mutant of calculateStructureScore: tabs cost as much as a glyph.
calculateStructureScoreTabs30(resume) ==
  LET specialChars == matchCountOf(resume, specialCharPattern)
      afterChars == IF specialChars > 0 THEN 100 - 30 ELSE 100
      tabs == matchCountOf(resume, {Tab})
      afterTabs == IF tabs > 10 THEN afterChars - 30 ELSE afterChars
      dateFormats == matchCountOfI(resume, dateFormatPattern)
      score == IF dateFormats >= 2 THEN afterTabs + 10 ELSE afterTabs
  IN  MathMax(0, MathMin(100, score))

\* 4. ATS-Friendly Structure Score (15%)
calculateStructureScore(resume) ==
  LET specialChars == matchCountOf(resume, specialCharPattern)
      afterChars == IF specialChars > 0 THEN 100 - 30 ELSE 100
      tabs == matchCountOf(resume, {Tab})
      afterTabs == IF tabs > 10 THEN afterChars - 20 ELSE afterChars
      dateFormats == matchCountOfI(resume, dateFormatPattern)
      score == IF dateFormats >= 2 THEN afterTabs + 10 ELSE afterTabs
  IN  MathMax(0, MathMin(100, score))

RECURSIVE keywordFrequencyOf(_, _)
\* jdKeywords.forEach(keyword => keywordFrequency += matches of \bkeyword\b
\* in resumeText.toLowerCase())
keywordFrequencyOf(resume, jdKeywords) ==
  IF jdKeywords = <<>> THEN 0
  ELSE matchCountOfI(resume, {Head(jdKeywords)})
       + keywordFrequencyOf(resume, Tail(jdKeywords))

\* Mutant of calculateBalanceScore: a density of exactly 1 percent still
\* counts as too few keywords.
calculateBalanceScoreAbove1(resume, jd) ==
  LET resumeWords == splitLength(resume)
      jdKeywords == extractKeywords(jd)
      keywordFrequency == keywordFrequencyOf(resume, jdKeywords)
      keywordDensity ==
        IF resumeWords > 0 THEN Rat(keywordFrequency * 100, resumeWords)
        ELSE RatOfInt(0)
      base ==
        IF ~RatLess(RatOfInt(1), keywordDensity) THEN 50
        ELSE IF RatLess(RatOfInt(5), keywordDensity) THEN 40
        ELSE IF ~RatLess(RatOfInt(3), keywordDensity) THEN 100
        ELSE 70
      score ==
        IF resumeWords < 250 THEN base - 30
        ELSE IF resumeWords > 1000 THEN base - 20 ELSE base
  IN  MathMax(0, score)

\* 5. Word Count & Keyword Balance Score (10%)
calculateBalanceScore(resume, jd) ==
  LET resumeWords == splitLength(resume)
      jdKeywords == extractKeywords(jd)
      keywordFrequency == keywordFrequencyOf(resume, jdKeywords)
      keywordDensity ==
        IF resumeWords > 0 THEN Rat(keywordFrequency * 100, resumeWords)
        ELSE RatOfInt(0)
      base ==
        IF RatLess(keywordDensity, RatOfInt(1)) THEN 50
        ELSE IF RatLess(RatOfInt(5), keywordDensity) THEN 40
        ELSE IF ~RatLess(keywordDensity, RatOfInt(1))
                /\ ~RatLess(RatOfInt(3), keywordDensity) THEN 100
        ELSE 70
      score ==
        IF resumeWords < 250 THEN base - 30
        ELSE IF resumeWords > 1000 THEN base - 20 ELSE base
  IN  MathMax(0, score)

----------------------------------------------------------------------------
(* calculateATSScore, one step per statement of its try block.             *)

Calculators == {"keywordMatch", "formatting", "readability", "structure", "balance"}

NoBreakdown ==
  [keywordMatch |-> -1, formatting |-> -1, readability |-> -1,
   structure |-> -1, keywordBalance |-> -1]
NoResult == [totalScore |-> -1, breakdown |-> NoBreakdown]

\* const keywordMatchScore = calculateKeywordMatch(resumeText, jobDescription)
ScoreKeywordMatch ==
  /\ pc = "keywordMatch"
  /\ keywordMatchScore' = calculateKeywordMatch(resumeText, jobDescription)
  /\ pc' = "formatting"
  /\ UNCHANGED <<resumeText, jobDescription, formattingScore, readabilityScore,
                 structureScore, balanceScore, thrown, result, insightVars, auxVars>>

\* const formattingScore = calculateFormattingScore(resumeText)
ScoreFormatting ==
  /\ pc = "formatting"
  /\ formattingScore' = calculateFormattingScore(resumeText)
  /\ pc' = "readability"
  /\ UNCHANGED <<resumeText, jobDescription, keywordMatchScore, readabilityScore,
                 structureScore, balanceScore, thrown, result, insightVars, auxVars>>

\* const readabilityScore = calculateReadabilityScore(resumeText)
ScoreReadability ==
  /\ pc = "readability"
  /\ readabilityScore' = calculateReadabilityScore(resumeText)
  /\ pc' = "structure"
  /\ UNCHANGED <<resumeText, jobDescription, keywordMatchScore, formattingScore,
                 structureScore, balanceScore, thrown, result, insightVars, auxVars>>

\* const structureScore = calculateStructureScore(resumeText)
ScoreStructure ==
  /\ pc = "structure"
  /\ structureScore' = calculateStructureScore(resumeText)
  /\ pc' = "balance"
  /\ UNCHANGED <<resumeText, jobDescription, keywordMatchScore, formattingScore,
                 readabilityScore, balanceScore, thrown, result, insightVars, auxVars>>

\* const balanceScore = calculateBalanceScore(resumeText, jobDescription)
ScoreBalance ==
  /\ pc = "balance"
  /\ balanceScore' = calculateBalanceScore(resumeText, jobDescription)
  /\ pc' = "total"
  /\ UNCHANGED <<resumeText, jobDescription, keywordMatchScore, formattingScore,
                 readabilityScore, structureScore, thrown, result, insightVars, auxVars>>

\* keywordMatchScore * 0.4 + formattingScore * 0.2 + readabilityScore * 0.15
\*   + structureScore * 0.15 + balanceScore * 0.1
weightedSum ==
  RatAdd(RatMul(keywordMatchScore, Rat(40, 100)),
         Rat(formattingScore * 20 + readabilityScore * 15
             + structureScore * 15 + balanceScore * 10, 100))

\* Mutant of tryResult: the total is the weighted sum of the rounded scores.
tryResultFromRounded ==
  LET totalScore ==
        MathRound(Rat(MathRound(keywordMatchScore) * 40 + formattingScore * 20
                      + readabilityScore * 15 + structureScore * 15
                      + balanceScore * 10, 100))
  IN  [totalScore |-> MathMin(100, MathMax(0, totalScore)),
       breakdown |->
         [keywordMatch |-> MathRound(keywordMatchScore),
          formatting |-> formattingScore,
          readability |-> readabilityScore,
          structure |-> structureScore,
          keywordBalance |-> balanceScore]]

\* The object returned by the try block.
tryResult ==
  LET totalScore == MathRound(weightedSum)
  IN  [totalScore |-> MathMin(100, MathMax(0, totalScore)),
       breakdown |->
         [keywordMatch |-> MathRound(keywordMatchScore),
          formatting |-> MathRound(RatOfInt(formattingScore)),
          readability |-> MathRound(RatOfInt(readabilityScore)),
          structure |-> MathRound(RatOfInt(structureScore)),
          keywordBalance |-> MathRound(RatOfInt(balanceScore))]]

\* Mutant of catchResult: the sub-scores computed before the failure are
\* reported, the others are zeroed.
catchResultPartial ==
  [totalScore |-> 0,
   breakdown |->
     [keywordMatch |-> MathMax(0, MathRound(keywordMatchScore)),
      formatting |-> MathMax(0, formattingScore),
      readability |-> MathMax(0, readabilityScore),
      structure |-> MathMax(0, structureScore),
      keywordBalance |-> MathMax(0, balanceScore)]]

\* The object returned by the catch block.
catchResult ==
  [totalScore |-> 0,
   breakdown |->
     [keywordMatch |-> 0, formatting |-> 0, readability |-> 0,
      structure |-> 0, keywordBalance |-> 0]]

\* const totalScore = Math.round(...); return { totalScore, breakdown }
ReturnTotal ==
  /\ pc = "total"
  /\ result' = tryResult
  /\ pc' = "done"
  /\ UNCHANGED <<resumeText, jobDescription, keywordMatchScore, formattingScore,
                 readabilityScore, structureScore, balanceScore, thrown, insightVars, auxVars>>

\* Mutant of Throw: calculateKeywordMatch swallows the failure of the keyword
\* extractor and scores 0, and the try block goes on.
ThrowSwallowed ==
  /\ pc \in Calculators
  /\ thrown' = pc
  /\ IF pc = "keywordMatch"
     THEN keywordMatchScore' = RatOfInt(0) /\ pc' = "formatting"
     ELSE keywordMatchScore' = keywordMatchScore /\ pc' = "catch"
  /\ UNCHANGED <<resumeText, jobDescription, formattingScore, readabilityScore,
                 structureScore, balanceScore, result, insightVars, auxVars>>

\* A calculator (or the keyword extractor it calls) throws: control leaves
\* the try block for the catch block; the constants assigned so far stay.
Throw ==
  /\ pc \in Calculators
  /\ thrown' = pc
  /\ pc' = "catch"
  /\ UNCHANGED <<resumeText, jobDescription, keywordMatchScore, formattingScore,
                 readabilityScore, structureScore, balanceScore, result, insightVars, auxVars>>

\* catch (error) { console.error(...); return { totalScore: 0, ... } }
CatchReturn ==
  /\ pc = "catch"
  /\ result' = catchResult
  /\ pc' = "done"
  /\ UNCHANGED <<resumeText, jobDescription, keywordMatchScore, formattingScore,
                 readabilityScore, structureScore, balanceScore, thrown, insightVars, auxVars>>

----------------------------------------------------------------------------
(* A second invocation of calculateATSScore, running while the first does. *)
(* Its parameters and constants live in its own frame, the record other.   *)

\* The object the try block returns for the five sub-scores.
resultOf(keywordMatch, formatting, readability, structure, balance) ==
  LET totalScore ==
        MathRound(RatAdd(RatMul(keywordMatch, Rat(40, 100)),
                         Rat(formatting * 20 + readability * 15
                             + structure * 15 + balance * 10, 100)))
  IN  [totalScore |-> MathMin(100, MathMax(0, totalScore)),
       breakdown |->
         [keywordMatch |-> MathRound(keywordMatch),
          formatting |-> MathRound(RatOfInt(formatting)),
          readability |-> MathRound(RatOfInt(readability)),
          structure |-> MathRound(RatOfInt(structure)),
          keywordBalance |-> MathRound(RatOfInt(balance))]]

\* What calculateATSScore(resume, jd) returns when nothing throws.
calculateATSScore(resume, jd) ==
  resultOf(calculateKeywordMatch(resume, jd), calculateFormattingScore(resume),
           calculateReadabilityScore(resume), calculateStructureScore(resume),
           calculateBalanceScore(resume, jd))

\* The frame of an invocation that has not computed anything yet.
frameOf(resume, jd, at) ==
  [resumeText |-> resume, jobDescription |-> jd, pc |-> at,
   keywordMatchScore |-> RatOfInt(-1), formattingScore |-> -1,
   readabilityScore |-> -1, structureScore |-> -1, balanceScore |-> -1,
   thrown |-> "none", result |-> NoResult]

\* Mutant of constant: the constants are module-level variables, so the
\* second invocation reads what the first one assigned.
constantShared(own, moduleLevel) == moduleLevel

\* A const declared inside calculateATSScore, read by the invocation that
\* declared it: own is its value in that invocation's frame, moduleLevel the
\* value the other invocation holds under the same name.
constant(own, moduleLevel) == own

otherFrame == <<pc, scoreVars, insightVars, suggestionVars, extractVars, routeVars>>

\* One of the five const declarations of the second invocation.
OtherCalculate ==
  /\ other.pc \in Calculators
  /\ other' =
       CASE other.pc = "keywordMatch" ->
              [other EXCEPT
                 !.keywordMatchScore =
                   calculateKeywordMatch(other.resumeText, other.jobDescription),
                 !.pc = "formatting"]
         [] other.pc = "formatting" ->
              [other EXCEPT
                 !.formattingScore = calculateFormattingScore(other.resumeText),
                 !.pc = "readability"]
         [] other.pc = "readability" ->
              [other EXCEPT
                 !.readabilityScore = calculateReadabilityScore(other.resumeText),
                 !.pc = "structure"]
         [] other.pc = "structure" ->
              [other EXCEPT
                 !.structureScore = calculateStructureScore(other.resumeText),
                 !.pc = "balance"]
         [] other.pc = "balance" ->
              [other EXCEPT
                 !.balanceScore =
                   calculateBalanceScore(other.resumeText, other.jobDescription),
                 !.pc = "total"]
  /\ UNCHANGED otherFrame

\* The second invocation returns from its try block.
OtherReturnTotal ==
  /\ other.pc = "total"
  /\ other' =
       [other EXCEPT
          !.result =
            resultOf(constant(other.keywordMatchScore, keywordMatchScore),
                     constant(other.formattingScore, formattingScore),
                     constant(other.readabilityScore, readabilityScore),
                     constant(other.structureScore, structureScore),
                     constant(other.balanceScore, balanceScore)),
          !.pc = "done"]
  /\ UNCHANGED otherFrame

\* A calculator of the second invocation throws.
OtherThrow ==
  /\ other.pc \in Calculators
  /\ other' = [other EXCEPT !.thrown = other.pc, !.pc = "catch"]
  /\ UNCHANGED otherFrame

\* The second invocation returns from its catch block.
OtherCatchReturn ==
  /\ other.pc = "catch"
  /\ other' = [other EXCEPT !.result = catchResult, !.pc = "done"]
  /\ UNCHANGED otherFrame

----------------------------------------------------------------------------
(* generateInsights, one step per analysed field.                          *)

strengthText ==
  [keywordMatch |-> "Excellent keyword alignment with job description",
   formatting |-> "Well-structured resume with all essential sections",
   readability |-> "Clear and professional writing style with strong action verbs",
   structure |-> "ATS-friendly format without complex tables or special characters",
   keywordBalance |-> "Optimal keyword density and resume length"]

weaknessText ==
  [keywordMatch |-> "Low keyword match - add more relevant skills and terms from job description",
   formatting |-> "Missing key sections like Summary, Experience, or Skills",
   readability |-> "Improve sentence structure and use more action verbs",
   structure |-> "Avoid using tables, graphics, or special symbols",
   keywordBalance |-> "Adjust keyword usage - either too sparse or stuffed"]

\* Mutant of analyse: a value exactly at the high threshold is no strength.
analyseAboveHigh(field, high, low) ==
  IF breakdown[field] > high
  THEN /\ strengths' = Append(strengths, strengthText[field])
       /\ UNCHANGED weaknesses
  ELSE IF breakdown[field] < low
  THEN /\ weaknesses' = Append(weaknesses, weaknessText[field])
       /\ UNCHANGED strengths
  ELSE UNCHANGED <<strengths, weaknesses>>

\* Mutant of analyse: a weakness is put at the front of the list.
analyseUnshift(field, high, low) ==
  IF breakdown[field] >= high
  THEN /\ strengths' = Append(strengths, strengthText[field])
       /\ UNCHANGED weaknesses
  ELSE IF breakdown[field] < low
  THEN /\ weaknesses' = <<weaknessText[field]>> \o weaknesses
       /\ UNCHANGED strengths
  ELSE UNCHANGED <<strengths, weaknesses>>

\* if (value >= high) strengths.push(...) else if (value < low) weaknesses.push(...)
analyse(field, high, low) ==
  IF breakdown[field] >= high
  THEN /\ strengths' = Append(strengths, strengthText[field])
       /\ UNCHANGED weaknesses
  ELSE IF breakdown[field] < low
  THEN /\ weaknesses' = Append(weaknesses, weaknessText[field])
       /\ UNCHANGED strengths
  ELSE UNCHANGED <<strengths, weaknesses>>

\* Keyword Match Analysis
KeywordMatchAnalysis ==
  /\ pc = "keywordMatchAnalysis"
  /\ analyse("keywordMatch", 70, 50)
  /\ pc' = "formattingAnalysis"
  /\ UNCHANGED <<scoreVars, breakdown, auxVars>>

\* Formatting Analysis
FormattingAnalysis ==
  /\ pc = "formattingAnalysis"
  /\ analyse("formatting", 80, 60)
  /\ pc' = "readabilityAnalysis"
  /\ UNCHANGED <<scoreVars, breakdown, auxVars>>

\* Readability Analysis
ReadabilityAnalysis ==
  /\ pc = "readabilityAnalysis"
  /\ analyse("readability", 75, 60)
  /\ pc' = "structureAnalysis"
  /\ UNCHANGED <<scoreVars, breakdown, auxVars>>

\* Structure Analysis
StructureAnalysis ==
  /\ pc = "structureAnalysis"
  /\ analyse("structure", 80, 60)
  /\ pc' = "balanceAnalysis"
  /\ UNCHANGED <<scoreVars, breakdown, auxVars>>

\* Balance Analysis; return { strengths, weaknesses }
BalanceAnalysis ==
  /\ pc = "balanceAnalysis"
  /\ analyse("keywordBalance", 70, 50)
  /\ pc' = "insightsDone"
  /\ UNCHANGED <<scoreVars, breakdown, auxVars>>

----------------------------------------------------------------------------
(* extractImportantKeywords and the rules of generateRuleBasedSuggestions  *)
(* (utils/aiSuggestions.js).                                               *)

\* /\b(javascript|js|python|...|object oriented)\b/gi of
\* extractImportantKeywords.  The alternatives c\+\+ and c# are left out: a
\* word boundary never follows their last character before a blank or the
\* end of the text, so no token matches them.
importantSkillPattern ==
  {"javascript", "js", "python", "react", "reactjs", "node", "nodejs", "java",
   "sql", "mysql", "postgresql", "mongodb", "aws", "docker", "kubernetes",
   "k8s", "git", "github", "gitlab", "typescript", "ts", "express",
   "expressjs", "angular", "angularjs", "vue", "vuejs", "html", "html5",
   "css", "css3", "scss", "sass", "less", "api", "rest", "restful", "graphql",
   "agile", "scrum", "kanban", "ci/cd", "devops", "machine learning", "ml",
   "ai", "artificial intelligence", "data science", "cloud", "azure", "gcp",
   "google cloud", "tensorflow", "pytorch", "keras", "pandas", "numpy",
   "scipy", "django", "flask", "fastapi", "spring", "springboot", "hibernate",
   "maven", "gradle", "redis", "memcached", "elasticsearch", "elk", "jenkins",
   "travis", "circleci", "ansible", "puppet", "chef", "terraform",
   "cloudformation", "linux", "unix", "ubuntu", "centos", "bash", "shell",
   "powershell", "cpp", "csharp", "dotnet", "ruby", "rails",
   "php", "laravel", "swift", "kotlin", "android", "ios", "flutter", "dart",
   "go", "golang", "rust", "scala", "perl", "r", "matlab", "sas", "spss",
   "tableau", "power bi", "looker", "excel", "vba", "word", "powerpoint",
   "jira", "confluence", "trello", "asana", "slack", "teams", "salesforce",
   "dynamics", "sap", "oracle", "peoplesoft", "workday", "servicenow",
   "sharepoint", "nosql", "cassandra", "dynamodb", "couchdb", "neo4j",
   "websocket", "socket.io", "microservices", "serverless", "lambda",
   "azure functions", "blockchain", "ethereum", "solidity", "iot",
   "raspberry pi", "arduino", "ar", "vr", "unity", "unreal",
   "game development", "figma", "sketch", "adobe xd", "photoshop",
   "illustrator", "after effects", "premiere", "ui", "ux", "frontend",
   "backend", "fullstack", "full stack", "mobile", "responsive", "seo", "sem",
   "analytics", "gtm", "tag manager", "a/b testing", "conversion", "oauth",
   "jwt", "authentication", "authorization", "security", "encryption", "ssl",
   "tls", "webpack", "babel", "npm", "yarn", "pnpm", "testing", "jest",
   "mocha", "chai", "cypress", "selenium", "pytest", "junit", "tdd", "bdd",
   "design patterns", "solid", "dry", "kiss", "mvc", "mvvm", "redux", "mobx",
   "vuex", "context api", "hooks", "functional programming", "oop",
   "object oriented"}
\* /\b(with|from|that|this|have|been|were|will|would|could|should)\b/
stopWordPattern ==
  {"with", "from", "that", "this", "have", "been", "were", "will", "would",
   "could", "should"}

\* /\b(leadership|communication|...|stakeholder management)\b/gi
softSkillPattern ==
  {"leadership", "communication", "teamwork", "problem solving",
   "critical thinking", "time management", "adaptability", "creativity",
   "collaboration", "organization", "analytical", "interpersonal",
   "presentation", "negotiation", "conflict resolution", "decision making",
   "strategic thinking", "project management", "stakeholder management"}

\* /experience|work history/i, /skills|technical skills/i, /education/i and
\* /summary|objective/i
experiencePattern == {"experience", "work history"}
skillsPattern == {"skills", "technical skills"}
educationPattern == {"education"}
summaryPattern == {"summary", "objective"}

\* /\b(managed|led|...|established)\b/gi of rule 3
suggestionVerbPattern ==
  {"managed", "led", "developed", "created", "implemented", "designed", "built",
   "improved", "achieved", "delivered", "coordinated", "analyzed", "optimized",
   "spearheaded", "executed", "established"}

\* /\d+%|\d+\+|increased by \d+|reduced \d+|saved \d+|\$\d+/gi: the tokens of
\* the vocabulary that hold one match.
numbersPattern == {"25%", "10+", "$5"}

\* /\b[a-z0-9._%+-]+@[a-z0-9.-]+\.[a-z]{2,}\b/i and
\* /\b\d{3}[-.\s]?\d{3}[-.\s]?\d{4}\b|\b\(\d{3}\)\s?\d{3}[-.\s]?\d{4}\b/
emailPattern == {"jo@ex.io"}
phonePattern == {"555-123-4567"}

\* String.prototype.toLowerCase on a text.
toLowerCaseText(text) ==
  [i \in DOMAIN text |-> [tok |-> toLowerCase(text[i].tok), n |-> text[i].n]]

\* text.includes(searchString) for a search string that is a token.
stringIncludes(text, searchString) ==
  \E i \in DOMAIN text : text[i].tok = searchString

\* regex.test(text) / text.match(regex) for a case-sensitive pattern.
regexTest(text, pattern) == \E i \in DOMAIN text : text[i].tok \in pattern

\* array.slice(start, end)
slice(array, start, end) == SubSeq(array, start + 1, MathMin(end, Len(array)))

\* Mutant of extractImportantKeywords: the list is returned whole.
extractImportantKeywordsUncapped(text) ==
  LET techSkills == addAll(<<>>, text, importantSkillPattern)
      nouns == addAll(techSkills, text,
                      {word \in nounLexicon :
                         Len(word) > 3 /\ word \notin stopWordPattern})
  IN  addAll(nouns, text, softSkillPattern)

\* Extract important keywords from job description: the technical skills,
\* then the nouns longer than 3 characters that are no stop-word, then the
\* soft skills, each lower-cased; Array.from(keywords).slice(0, 30).
extractImportantKeywords(text) ==
  LET techSkills == addAll(<<>>, text, importantSkillPattern)
      nouns == addAll(techSkills, text,
                      {word \in nounLexicon :
                         Len(word) > 3 /\ word \notin stopWordPattern})
      keywords == addAll(nouns, text, softSkillPattern)
  IN  slice(keywords, 0, 30)

\* suggestions.push({ category, message, priority }); the message is the
\* sequence of its parts.
push(list, category, message, priority) ==
  Append(list, [category |-> category, message |-> message, priority |-> priority])

\* jdKeywords.filter(keyword => !resumeLower.includes(keyword.toLowerCase()))
\* .slice(0, 5)
missingKeywords(resume, jd) ==
  LET jdKeywords == extractImportantKeywords(jd)
      resumeLower == toLowerCaseText(resume)
  IN  slice(SelectSeq(jdKeywords,
                      LAMBDA keyword : ~stringIncludes(resumeLower, toLowerCase(keyword))),
            0, 5)

\* 1. Missing Keywords
ruleMissingKeywords(list, resume, jd) ==
  IF Len(missingKeywords(resume, jd)) > 0
  THEN push(list, "Keywords",
            <<"Add these important keywords from job description:">>
              \o missingKeywords(resume, jd), "high")
  ELSE list

\* Mutant of ruleFormattingIssues: the sections are asked for whatever the
\* formatting score.
ruleFormattingIssuesUngated(list, resume, bd) ==
  LET experience ==
        IF ~regexTestI(resume, experiencePattern)
        THEN push(list, "Structure", <<"Add a clear \"Work Experience\" section">>, "high")
        ELSE list
      skills ==
        IF ~regexTestI(resume, skillsPattern)
        THEN push(experience, "Structure", <<"Include a dedicated \"Skills\" section">>, "high")
        ELSE experience
  IN  IF ~regexTestI(resume, educationPattern)
      THEN push(skills, "Structure", <<"Add an \"Education\" section">>, "medium")
      ELSE skills

\* Mutant of ruleFormattingIssues: the education section is asked for twice.
ruleFormattingIssuesTwice(list, resume, bd) ==
  LET once == ruleFormattingIssuesUngated(list, resume, bd)
  IN  IF bd.formatting < 70
      THEN IF ~regexTestI(resume, educationPattern)
           THEN push(once, "Structure", <<"Add an \"Education\" section">>, "medium")
           ELSE once
      ELSE list

\* 2. Formatting Issues
ruleFormattingIssues(list, resume, bd) ==
  IF bd.formatting < 70
  THEN LET experience ==
             IF ~regexTestI(resume, experiencePattern)
             THEN push(list, "Structure",
                       <<"Add a clear \"Work Experience\" section">>, "high")
             ELSE list
           skills ==
             IF ~regexTestI(resume, skillsPattern)
             THEN push(experience, "Structure",
                       <<"Include a dedicated \"Skills\" section">>, "high")
             ELSE experience
       IN  IF ~regexTestI(resume, educationPattern)
           THEN push(skills, "Structure", <<"Add an \"Education\" section">>, "medium")
           ELSE skills
  ELSE list

\* 3. Action Verbs
ruleActionVerbs(list, resume) ==
  LET actionVerbs == matchCountOfI(resume, suggestionVerbPattern)
  IN  IF actionVerbs < 3
      THEN push(list, "Content", <<"Start bullet points with strong action verbs">>,
                "medium")
      ELSE list

\* 4. Quantifiable Achievements
ruleQuantifiableAchievements(list, resume) ==
  LET numbers == matchCountOfI(resume, numbersPattern)
  IN  IF numbers < 2
      THEN push(list, "Content", <<"Add quantifiable achievements">>, "high")
      ELSE list

\* 5. ATS-Unfriendly Elements
ruleAtsUnfriendlyElements(list, resume) ==
  IF regexTest(resume, specialCharPattern)
  THEN push(list, "Formatting", <<"Remove special characters, bullets, and symbols">>,
            "high")
  ELSE list

\* 6. Personal Pronouns
rulePersonalPronouns(list, resume) ==
  LET pronouns == matchCountOfI(resume, pronounPattern)
  IN  IF pronouns > 5
      THEN push(list, "Writing Style", <<"Avoid personal pronouns">>, "medium")
      ELSE list

\* 7. Resume Length
ruleResumeLength(list, resume) ==
  LET wordCount == splitLength(resume)
  IN  IF wordCount < 250
      THEN push(list, "Content", <<"Resume is too short">>, "medium")
      ELSE IF wordCount > 1000
      THEN push(list, "Content", <<"Resume is too long">>, "medium")
      ELSE list

\* 8. Section Headers
ruleSectionHeaders(list, resume) ==
  IF ~regexTestI(resume, summaryPattern)
  THEN push(list, "Structure", <<"Add a Professional Summary at the top">>, "medium")
  ELSE list

\* 9. Contact Information
ruleContactInformation(list, resume) ==
  LET email ==
        IF ~regexTestI(resume, emailPattern)
        THEN push(list, "Contact", <<"Ensure your email address is clearly visible">>,
                  "high")
        ELSE list
  IN  IF ~regexTest(resume, phonePattern)
      THEN push(email, "Contact", <<"Include a phone number">>, "medium")
      ELSE email

\* 10. Keywords density
ruleKeywordsDensity(list, bd) ==
  IF bd.keywordBalance < 50
  THEN push(list, "Keywords", <<"Maintain 1-3% keyword density">>, "medium")
  ELSE list

\* 11. Specific skill recommendations based on job description
ruleSkillRecommendations(list, resume, jd) ==
  LET jdLower == toLowerCaseText(jd)
      resumeLower == toLowerCaseText(resume)
      react ==
        IF stringIncludes(jdLower, "react") /\ ~stringIncludes(resumeLower, "react")
        THEN push(list, "Skills", <<"Job requires React">>, "high")
        ELSE list
      python ==
        IF stringIncludes(jdLower, "python") /\ ~stringIncludes(resumeLower, "python")
        THEN push(react, "Skills", <<"Job requires Python">>, "high")
        ELSE react
  IN  IF stringIncludes(jdLower, "aws") /\ ~stringIncludes(resumeLower, "aws")
      THEN push(python, "Skills", <<"Job requires AWS">>, "high")
      ELSE python

\* 12. Certification recommendations
ruleCertificationRecommendations(list, resume, jd) ==
  IF stringIncludes(toLowerCaseText(jd), "certified")
     /\ ~stringIncludes(toLowerCaseText(resume), "certification")
  THEN push(list, "Certifications", <<"Add relevant certifications if you have any">>,
            "low")
  ELSE list

----------------------------------------------------------------------------
(* generateAISuggestions, one step per rule of generateRuleBasedSuggestions.*)

SuggestionRules ==
  <<"missingKeywords", "formattingIssues", "actionVerbs", "quantifiableAchievements",
    "atsUnfriendlyElements", "personalPronouns", "resumeLength", "sectionHeaders",
    "contactInformation", "keywordsDensity", "skillRecommendations",
    "certificationRecommendations">>

\* What a rule of generateRuleBasedSuggestions leaves alone.
ruleFrame == <<scoreVars, insightVars, suggestions, caught, aiSuggestions, laterVars>>

MissingKeywordsRule ==
  /\ pc = "missingKeywords"
  /\ ruleBased' = ruleMissingKeywords(ruleBased, resumeText, jobDescription)
  /\ pc' = "formattingIssues"
  /\ UNCHANGED ruleFrame

FormattingIssuesRule ==
  /\ pc = "formattingIssues"
  /\ ruleBased' = ruleFormattingIssues(ruleBased, resumeText, breakdown)
  /\ pc' = "actionVerbs"
  /\ UNCHANGED ruleFrame

ActionVerbsRule ==
  /\ pc = "actionVerbs"
  /\ ruleBased' = ruleActionVerbs(ruleBased, resumeText)
  /\ pc' = "quantifiableAchievements"
  /\ UNCHANGED ruleFrame

QuantifiableAchievementsRule ==
  /\ pc = "quantifiableAchievements"
  /\ ruleBased' = ruleQuantifiableAchievements(ruleBased, resumeText)
  /\ pc' = "atsUnfriendlyElements"
  /\ UNCHANGED ruleFrame

AtsUnfriendlyElementsRule ==
  /\ pc = "atsUnfriendlyElements"
  /\ ruleBased' = ruleAtsUnfriendlyElements(ruleBased, resumeText)
  /\ pc' = "personalPronouns"
  /\ UNCHANGED ruleFrame

PersonalPronounsRule ==
  /\ pc = "personalPronouns"
  /\ ruleBased' = rulePersonalPronouns(ruleBased, resumeText)
  /\ pc' = "resumeLength"
  /\ UNCHANGED ruleFrame

ResumeLengthRule ==
  /\ pc = "resumeLength"
  /\ ruleBased' = ruleResumeLength(ruleBased, resumeText)
  /\ pc' = "sectionHeaders"
  /\ UNCHANGED ruleFrame

SectionHeadersRule ==
  /\ pc = "sectionHeaders"
  /\ ruleBased' = ruleSectionHeaders(ruleBased, resumeText)
  /\ pc' = "contactInformation"
  /\ UNCHANGED ruleFrame

ContactInformationRule ==
  /\ pc = "contactInformation"
  /\ ruleBased' = ruleContactInformation(ruleBased, resumeText)
  /\ pc' = "keywordsDensity"
  /\ UNCHANGED ruleFrame

KeywordsDensityRule ==
  /\ pc = "keywordsDensity"
  /\ ruleBased' = ruleKeywordsDensity(ruleBased, breakdown)
  /\ pc' = "skillRecommendations"
  /\ UNCHANGED ruleFrame

SkillRecommendationsRule ==
  /\ pc = "skillRecommendations"
  /\ ruleBased' = ruleSkillRecommendations(ruleBased, resumeText, jobDescription)
  /\ pc' = "certificationRecommendations"
  /\ UNCHANGED ruleFrame

CertificationRecommendationsRule ==
  /\ pc = "certificationRecommendations"
  /\ ruleBased' = ruleCertificationRecommendations(ruleBased, resumeText, jobDescription)
  /\ pc' = "returnRuleBased"
  /\ UNCHANGED ruleFrame

\* const ruleBased = generateRuleBasedSuggestions(...);
\* suggestions.push(...ruleBased)
PushRuleBased ==
  /\ pc = "returnRuleBased"
  /\ suggestions' = suggestions \o ruleBased
  /\ pc' = "slice"
  /\ UNCHANGED <<scoreVars, insightVars, ruleBased, caught, aiSuggestions, laterVars>>

\* Mutant of CatchSuggestionError: what the rules had appended before the
\* exception is pushed onto the list generateAISuggestions returns.
CatchSuggestionErrorPartial ==
  /\ \E i \in DOMAIN SuggestionRules : pc = SuggestionRules[i]
  /\ caught' = TRUE
  /\ suggestions' = suggestions \o ruleBased
  /\ pc' = "slice"
  /\ UNCHANGED <<scoreVars, insightVars, ruleBased, aiSuggestions, laterVars>>

\* An exception inside generateRuleBasedSuggestions: its list is abandoned
\* and generateAISuggestions' catch block logs the error.
CatchSuggestionError ==
  /\ \E i \in DOMAIN SuggestionRules : pc = SuggestionRules[i]
  /\ caught' = TRUE
  /\ pc' = "slice"
  /\ UNCHANGED <<scoreVars, insightVars, ruleBased, suggestions, aiSuggestions, laterVars>>

\* Mutant of topSuggestions: the list is ordered by priority before it is cut.
topSuggestionsByPriority(list) ==
  slice(SelectSeq(list, LAMBDA s : s.priority = "high")
          \o SelectSeq(list, LAMBDA s : s.priority = "medium")
          \o SelectSeq(list, LAMBDA s : s.priority = "low"), 0, 10)

\* Mutant of topSuggestions: the last ten suggestions are kept.
topSuggestionsLast(list) ==
  SubSeq(list, MathMax(1, Len(list) - 9), Len(list))

\* suggestions.slice(0, 10)
topSuggestions(list) == slice(list, 0, 10)

\* return suggestions.slice(0, 10); // Return top 10 suggestions
ReturnSuggestions ==
  /\ pc = "slice"
  /\ aiSuggestions' = topSuggestions(suggestions)
  /\ pc' = "suggestionsDone"
  /\ UNCHANGED <<scoreVars, insightVars, ruleBased, suggestions, caught, laterVars>>

----------------------------------------------------------------------------
(* parseResume (utils/resumeParser.js) and what the analyze route calls.   *)

RECURSIVE charsOf(_)
\* The characters of the tokens of a text, without the blanks between them.
charsOf(text) ==
  IF text = <<>> THEN 0
  ELSE Head(text).n * Len(Head(text).tok) + charsOf(Tail(text))

\* text.length: the tokens and the single blanks that join them.
length(text) ==
  IF text = <<>> THEN 0
  ELSE charsOf(text) + matchCountOf(text, {text[i].tok : i \in DOMAIN text}) - 1

\* text.replace(/\s+/g, ' ').replace(/\n+/g, '\n').trim(): every run of
\* whitespace becomes one blank, so the tabs between the words go.
clean(text) == SelectSeq(text, LAMBDA r : r.tok # Tab)

\* String.prototype.trim: the whitespace before the first and after the
\* last word goes.
trim(text) ==
  LET words == {i \in DOMAIN text : text[i].tok # Tab}
  IN  IF words = {} THEN <<>>
      ELSE SubSeq(text, CHOOSE i \in words : \A j \in words : i <= j,
                        CHOOSE i \in words : \A j \in words : j <= i)

\* The fields generateInsights analyses, in its order, each with the value
\* from which it is a strength and the value below which it is a weakness.
insightThresholds ==
  << <<"keywordMatch", 70, 50>>, <<"formatting", 80, 60>>,
     <<"readability", 75, 60>>, <<"structure", 80, 60>>,
     <<"keywordBalance", 70, 50>> >>

\* Mutant of generateInsights: a weakness is put at the front of the list.
generateInsightsUnshift(bd) ==
  LET strong == SelectSeq(insightThresholds, LAMBDA t : bd[t[1]] >= t[2])
      weak == SelectSeq(insightThresholds,
                        LAMBDA t : bd[t[1]] < t[2] /\ bd[t[1]] < t[3])
  IN  [strengths |-> [i \in DOMAIN strong |-> strengthText[strong[i][1]]],
       weaknesses |-> [i \in DOMAIN weak |->
                         weaknessText[weak[Len(weak) + 1 - i][1]]]]

\* generateInsights(breakdown, resumeText, jobDescription) as a function.
generateInsights(bd) ==
  LET strong == SelectSeq(insightThresholds, LAMBDA t : bd[t[1]] >= t[2])
      weak == SelectSeq(insightThresholds,
                        LAMBDA t : bd[t[1]] < t[2] /\ bd[t[1]] < t[3])
  IN  [strengths |-> [i \in DOMAIN strong |-> strengthText[strong[i][1]]],
       weaknesses |-> [i \in DOMAIN weak |-> weaknessText[weak[i][1]]]]

\* generateRuleBasedSuggestions(resumeText, jobDescription, breakdown) as a
\* function: the twelve rules in their order.
generateRuleBasedSuggestions(resume, jd, bd) ==
  LET r1 == ruleMissingKeywords(<<>>, resume, jd)
      r2 == ruleFormattingIssues(r1, resume, bd)
      r3 == ruleActionVerbs(r2, resume)
      r4 == ruleQuantifiableAchievements(r3, resume)
      r5 == ruleAtsUnfriendlyElements(r4, resume)
      r6 == rulePersonalPronouns(r5, resume)
      r7 == ruleResumeLength(r6, resume)
      r8 == ruleSectionHeaders(r7, resume)
      r9 == ruleContactInformation(r8, resume)
      r10 == ruleKeywordsDensity(r9, bd)
      r11 == ruleSkillRecommendations(r10, resume, jd)
  IN  ruleCertificationRecommendations(r11, resume, jd)

\* What generateAISuggestions resolves to when the rules do not throw.
generateAISuggestions(resume, jd, bd) ==
  topSuggestions(generateRuleBasedSuggestions(resume, jd, bd))

----------------------------------------------------------------------------
(* The two keyword extractors, applied to one text.                        *)

\* const keywords = extractKeywords(text)  (utils/atsScoring.js)
ExtractKeywords ==
  /\ pc = "extractKeywords"
  /\ scoringKeywords' = extractKeywords(extractorText)
  /\ pc' = "extractImportantKeywords"
  /\ UNCHANGED <<scoreVars, insightVars, suggestionVars, extractorText,
                 importantKeywords, other, routeVars>>

\* const jdKeywords = extractImportantKeywords(text)  (utils/aiSuggestions.js)
ExtractImportantKeywords ==
  /\ pc = "extractImportantKeywords"
  /\ importantKeywords' = extractImportantKeywords(extractorText)
  /\ pc' = "extracted"
  /\ UNCHANGED <<scoreVars, insightVars, suggestionVars, extractorText,
                 scoringKeywords, other, routeVars>>

----------------------------------------------------------------------------
(* router.post('/analyze', ...) of routes/resume.js: each action is the    *)
(* code of one request between two awaits; requests interleave there.      *)

MaxStored == 50    \* reports.splice(50): the reports the file keeps

NoResponse == [status |-> 0, success |-> FALSE, data |-> [message |-> "none"]]

\* res.status(code).json({ success: false, message })
failure(code, message) ==
  [status |-> code, success |-> FALSE, data |-> [message |-> message]]

NoCore ==
  [totalScore |-> -1, breakdown |-> NoBreakdown, strengths |-> <<>>,
   weaknesses |-> <<>>, suggestions |-> <<>>]

\* A request that has reached the handler: req.file, req.body.jobDescription
\* and the text the parser library will extract from the file.
requestOf(input) ==
  [pc |-> "received", file |-> input.file, jobDescription |-> input.jobDescription,
   extracted |-> input.extracted, parsed |-> "none", resumeText |-> <<>>,
   invoked |-> {}, core |-> NoCore,
   persistence |-> [file |-> "none", mongo |-> "none"],
   result |-> NoResponse, response |-> NoResponse]

\* What the handler of a request leaves alone besides the other requests.
handlerFrame == <<pc, scoreVars, insightVars, suggestionVars, extractVars, other>>

\* return res.status(...).json(...) / res.json(result)
respond(r, fields, response) ==
  requests' = [requests EXCEPT ![r] = [fields EXCEPT !.pc = "responded",
                                                      !.response = response]]

\* Validation, up to the call of parseResume.
Validate(r) ==
  /\ requests[r].pc = "received"
  /\ LET req == requests[r]
     IN  IF ~req.file
         THEN respond(r, req, failure(400, "Please upload a resume file (PDF or DOCX)"))
         ELSE IF length(trim(req.jobDescription)) < 50
         THEN respond(r, req, failure(400, "Please provide a detailed job description"))
         ELSE requests' = [requests EXCEPT ![r].pc = "parseResume"]
  /\ UNCHANGED <<handlerFrame, reportsFile, mongoReports, savedLog>>

\* await parseResume(file) settles: the parser library rejects, or the
\* cleaned text is too short for parseResume, and the handler's catch block
\* answers; otherwise the handler goes on to the length check, the score
\* (calculateATSScore may return from its catch block), the insights and
\* the call of generateAISuggestions.
Analyze(r) ==
  /\ requests[r].pc = "parseResume"
  /\ \E rejected \in BOOLEAN, scoreFailed \in BOOLEAN :
       LET req == requests[r]
           resume == clean(req.extracted)
           jd == req.jobDescription
           score == IF scoreFailed THEN catchResult ELSE calculateATSScore(resume, jd)
           insights == generateInsights(score.breakdown)
       IN  IF rejected
           THEN respond(r, [req EXCEPT !.parsed = "rejected"],
                        failure(500, "Failed to analyze resume"))
           ELSE IF length(resume) < 50
           THEN respond(r, [req EXCEPT !.parsed = "extracted"],
                        failure(500, "Failed to analyze resume"))
           ELSE IF length(resume) < 100
           THEN respond(r, [req EXCEPT !.parsed = "extracted", !.resumeText = resume],
                        failure(400, "Could not extract enough text from resume"))
           ELSE requests' =
                  [requests EXCEPT ![r] =
                     [req EXCEPT
                        !.pc = "awaitSuggestions",
                        !.parsed = "extracted",
                        !.resumeText = resume,
                        !.invoked = {"calculateATSScore", "generateInsights",
                                     "generateAISuggestions"},
                        !.core =
                          [totalScore |-> score.totalScore,
                           breakdown |-> score.breakdown,
                           strengths |-> insights.strengths,
                           weaknesses |-> insights.weaknesses,
                           suggestions |->
                             generateAISuggestions(resume, jd, score.breakdown)]]]
  /\ UNCHANGED <<handlerFrame, reportsFile, mongoReports, savedLog>>

\* const reports = readReports(); reports.unshift(reportData);
\* if (reports.length > 50) reports.splice(50): the list handed to
\* writeReports; readReports gives [] when reading or parsing fails.
saveToFile(file, reportData, outcome) ==
  LET reports == <<reportData>> \o (IF outcome = "readFailed" THEN <<>> ELSE file)
  IN  IF Len(reports) > MaxStored THEN SubSeq(reports, 1, MaxStored) ELSE reports

\* Mutant of afterSave: a rejected report.save() reaches the outer catch.
afterSaveUncaught(prepared, outcome) ==
  IF outcome = "threw" THEN failure(500, "Failed to analyze resume") ELSE prepared

\* try { await report.save() } catch (dbError) { ... }; res.json(result)
afterSave(prepared, outcome) == prepared

\* await generateAISuggestions(...) settles: the response is prepared, the
\* report goes to the file, and report.save() is called when MongoDB is
\* connected; otherwise the response is sent. The file block ends in one
\* of four ways: both the read and the write succeed; the read fails
\* (readReports gives []) and the write succeeds; the write fails, which
\* writeReports swallows; or the block throws before writing (what was read
\* is not an array) and catch (fileError) skips the reportId.
SaveReport(r) ==
  /\ requests[r].pc = "awaitSuggestions"
  /\ \E outcome \in {"saved", "readFailed", "writeFailed", "blockThrew"},
        connected \in BOOLEAN :
       LET req == requests[r]
           reportData == [id |-> r, atsScore |-> req.core.totalScore]
           data ==
             [atsScore |-> req.core.totalScore,
              breakdown |-> req.core.breakdown,
              strengths |-> req.core.strengths,
              weaknesses |-> req.core.weaknesses,
              suggestions |-> req.core.suggestions,
              resumeWordCount |-> splitLength(req.resumeText)]
           prepared ==
             [status |-> 200, success |-> TRUE,
              data |->
                IF outcome = "blockThrew"
                  THEN data
                  ELSE [f \in DOMAIN data \cup {"reportId"} |->
                          IF f = "reportId" THEN r ELSE data[f]]]
           done == [req EXCEPT
                      !.persistence =
                        [file |-> outcome,
                         mongo |-> IF connected THEN "saving" ELSE "disconnected"],
                      !.result = prepared]
       IN  /\ IF outcome \in {"saved", "readFailed"}
              THEN /\ reportsFile' = saveToFile(reportsFile, reportData, outcome)
                   /\ savedLog' = <<reportData>> \o savedLog
              ELSE UNCHANGED <<reportsFile, savedLog>>
           /\ IF connected
              THEN requests' = [requests EXCEPT ![r] = [done EXCEPT !.pc = "awaitSave"]]
              ELSE respond(r, done, prepared)
  /\ UNCHANGED <<handlerFrame, mongoReports>>

\* await report.save() settles, resolved or rejected; the response is sent.
RespondAfterSave(r) ==
  /\ requests[r].pc = "awaitSave"
  /\ \E outcome \in {"saved", "threw"} :
       /\ mongoReports' =
            IF outcome = "saved" THEN mongoReports \cup {r} ELSE mongoReports
       /\ respond(r, [requests[r] EXCEPT !.persistence.mongo = outcome],
                  afterSave(requests[r].result, outcome))
  /\ UNCHANGED <<handlerFrame, reportsFile, savedLog>>

----------------------------------------------------------------------------
(* The explored inputs.                                                    *)

Near(t) == (t - Margin)..(t + Margin)
Bit == {0, 1}

\* The text of the given <<token, count>> pairs, in that order, without
\* the tokens whose count is 0.
runs(pairs) ==
  SelectSeq([i \in DOMAIN pairs |-> [tok |-> pairs[i][1], n |-> pairs[i][2]]],
            LAMBDA r : r.n > 0)

\* head, then as many filler words as bring the text to total words (none
\* when head and tail already hold that many), then tail.
compose(head, tail, total) ==
  LET filler == total - (splitLength(head \o <<[tok |-> "the", n |-> 1]>> \o tail) - 1)
  IN  head \o runs(<< <<"the", IF filler > 0 THEN filler ELSE 0>> >>) \o tail

\* Resumes that vary the section markers and the length.
FormattingResumes ==
  { compose(runs(<< <<"email", a>>, <<"summary", b>>, <<"Experience", c>>,
                    <<"education", d>>, <<"skills", e>> >>), <<>>, total) :
      a \in Bit, b \in Bit, c \in Bit, d \in Bit, e \in Bit,
      total \in {0, 500} \cup Near(200) \cup Near(300) \cup Near(800) }

\* Resumes that vary pronouns, action verbs, sentences and the length.
ReadabilityResumes ==
  { compose(runs(<< <<"I", p>>, <<"managed", v>> >>),
            runs(<< <<"done.", s>>, <<".", d>> >>), total) :
      p \in 0..MaxPronouns, v \in 0..MaxVerbs, s \in 0..2, d \in Bit,
      total \in {15, 30} \cup Near(10) \cup Near(20) \cup Near(25) \cup Near(50) }

\* Resumes that vary glyphs, tabs and dates.
StructureResumes ==
  { compose(runs(<< <<Tab, t>>, <<"U+2605", g>>, <<"2020", y>>, <<"03/2021", m>> >>),
            <<>>, total) :
      t \in {0} \cup Near(10), g \in 0..MaxGlyphs, y \in 0..MaxDates, m \in Bit,
      total \in {0, 300} }

\* Resumes that vary the keywords, their repetition and the length.
KeywordResumes ==
  { compose(runs(<< <<"I", p>>, <<"python", a>>, <<"react", b>>, <<"engineer", e>> >>),
            <<>>, total) :
      p \in {0, MaxPronouns}, a \in 0..MaxKeywordReps, b \in Bit, e \in Bit,
      total \in {100, 300} \cup Near(250) \cup Near(1000) }

\* Resumes that combine the features of all five calculators.
MixedResumes ==
  { compose(runs(<< <<Tab, 11 * t>>, <<"email", m>>, <<"summary", m>>,
                    <<"Experience", m>>, <<"education", m>>, <<"skills", m>>,
                    <<"I", MaxPronouns * p>>, <<"managed", 5 * v>>,
                    <<"U+25CF", g>>, <<"2019", 2 * y>>, <<"Python", 3 * a>> >>),
            runs(<< <<"done.", 2 * s>> >>), total) :
      t \in Bit, m \in Bit, p \in Bit, v \in Bit, g \in Bit, y \in Bit,
      a \in Bit, s \in Bit, total \in {100, 300, 1001} }

\* Job descriptions: any of three keywords among fifty other words.
JobDescriptions ==
  { runs(<< <<"Python", a>>, <<"react", b>>, <<"engineer", c>>, <<"the", 50>> >>) :
      a \in Bit, b \in Bit, c \in Bit }

DefaultJobDescription == runs(<< <<"Python", 1>>, <<"the", 50>> >>)

ScoreInputs ==
  ((KeywordResumes \cup MixedResumes) \X JobDescriptions)
  \cup ((FormattingResumes \cup ReadabilityResumes \cup StructureResumes)
        \X {DefaultJobDescription})

\* Breakdown values around the thresholds of generateInsights.
InsightValues(high, low) == {0, 100} \cup ((low - Margin)..(low + Margin - 1))
                                     \cup ((high - Margin)..(high + Margin - 1))

Breakdowns ==
  { [keywordMatch |-> k, formatting |-> f, readability |-> r, structure |-> s,
     keywordBalance |-> b] :
      k \in InsightValues(70, 50), f \in InsightValues(80, 60),
      r \in InsightValues(75, 60), s \in InsightValues(80, 60),
      b \in InsightValues(70, 50) }

\* Resumes that vary what the section and contact rules look for.
SectionResumes ==
  { compose(runs(<< <<"Experience", a>>, <<"skills", b>>, <<"education", c>>,
                    <<"summary", d>>, <<"jo@ex.io", e>>, <<"555-123-4567", f>>,
                    <<"U+2605", g>> >>), <<>>, 100) :
      a \in Bit, b \in Bit, c \in Bit, d \in Bit, e \in Bit, f \in Bit, g \in Bit }

\* Resumes that vary the skills the job description may ask for.
SkillResumes ==
  { compose(runs(<< <<"react", a>>, <<"Python", b>>, <<"aws", c>>,
                    <<"certification", d>> >>), <<>>, 300) :
      a \in Bit, b \in Bit, c \in Bit, d \in Bit }

\* Resumes around the thresholds of the counting rules.
CountResumes ==
  { compose(runs(<< <<"managed", v>>, <<"25%", q>>, <<"I", p>> >>), <<>>, total) :
      v \in Near(3), q \in Near(2), p \in Near(6),
      total \in Near(250) \cup Near(1001) }

\* Job descriptions that ask for any of the skills of rules 11 and 12.
SkillJobDescriptions ==
  { runs(<< <<"React", a>>, <<"python", b>>, <<"aws", c>>, <<"certified", d>>,
            <<"the", 50>> >>) :
      a \in Bit, b \in Bit, c \in Bit, d \in Bit }

\* Breakdowns around the thresholds of rules 2 and 10.
SuggestionBreakdowns ==
  { [keywordMatch |-> 0, formatting |-> f, readability |-> 0, structure |-> 0,
     keywordBalance |-> b] :
      f \in {0} \cup Near(70), b \in {0, 100} }
  \cup
  { [keywordMatch |-> 0, formatting |-> 100, readability |-> 0, structure |-> 0,
     keywordBalance |-> b] : b \in Near(50) }

SuggestionInputs ==
  (SectionResumes
     \X {runs(<< <<"the", 50>> >>),
         runs(<< <<"React", 1>>, <<"python", 1>>, <<"aws", 1>>, <<"certified", 1>>,
                 <<"the", 50>> >>)}
     \X SuggestionBreakdowns)
  \cup (SkillResumes \X SkillJobDescriptions \X SuggestionBreakdowns)
  \cup (CountResumes \X {DefaultJobDescription} \X SuggestionBreakdowns)

\* The arguments of two invocations that run at the same time.
TwoCallInputs ==
  { compose(runs(<< <<"Experience", a>>, <<"I", MaxPronouns * b>>,
                    <<"Python", 3 * c>> >>), <<>>, 300) :
      a \in Bit, b \in Bit, c \in Bit }
  \X {DefaultJobDescription, runs(<< <<"react", 1>>, <<"the", 50>> >>)}

\* Technical skills that both extractors know, in the order the explored
\* texts list them.
SkillTokens ==
  <<"javascript", "python", "react", "node", "nodejs", "java", "sql", "mysql",
    "postgresql", "mongodb", "aws", "docker", "kubernetes", "git", "typescript",
    "express", "angular", "vue", "html", "css", "scss", "sass", "api", "restful",
    "graphql", "agile", "scrum", "devops", "cloud", "azure", "gcp", "tensorflow",
    "pytorch">>

\* Texts for the extractors: short nouns, a stop-word, a longer noun, a soft
\* skill and a capitalised skill, then the first k of the skills above.
ExtractorTexts ==
  { runs(<< <<"job", a>>, <<"will", b>>, <<"engineer", 2 * c>>,
            <<"leadership", d>>, <<"Python", e>> >>)
      \o [i \in 1..k |-> [tok |-> SkillTokens[i], n |-> 1]] :
      a \in Bit, b \in Bit, c \in Bit, d \in Bit, e \in Bit, k \in 0..MaxSkills }

\* Job descriptions of 50 and, once trimmed, 49 characters.
GoodJobDescription == runs(<< <<"Python", 1>>, <<"the", 11>> >>)
ThinJobDescription == runs(<< <<Tab, 2>>, <<"react", 1>>, <<"the", 11>> >>)

GoodResume ==
  compose(runs(<< <<"Experience", 1>>, <<"skills", 1>>, <<"Python", 3>>,
                  <<"jo@ex.io", 1>> >>), <<>>, 300)

\* The analyze requests: without a file, with a thin job description, and
\* with files whose cleaned text has 49, 50, 99 and 100 characters.
RequestInputs ==
  {[file |-> FALSE, jobDescription |-> GoodJobDescription, extracted |-> GoodResume],
   [file |-> TRUE, jobDescription |-> ThinJobDescription, extracted |-> GoodResume]}
  \cup
  {[file |-> TRUE, jobDescription |-> GoodJobDescription, extracted |-> resume] :
     resume \in {runs(<< <<Tab, 3>>, <<"react", 1>>, <<"the", 11>> >>),
                 runs(<< <<"Python", 1>>, <<"the", 11>> >>),
                 runs(<< <<"the", 25>> >>),
                 runs(<< <<"2019", 1>>, <<"the", 24>> >>)}}

Requests == 1..MaxRequests

\* The reports file before the requests: empty, one short of full, or full.
StoredBefore ==
  {[i \in 1..k |-> [id |-> 0 - i, atsScore |-> 0]] :
     k \in {0, MaxStored - 1, MaxStored}}

----------------------------------------------------------------------------
(* Specifications.                                                         *)

\* The locals of the functions that are not running.
IdleScore ==
  /\ keywordMatchScore = RatOfInt(-1)
  /\ formattingScore = -1
  /\ readabilityScore = -1
  /\ structureScore = -1
  /\ balanceScore = -1
  /\ thrown = "none"
  /\ result = NoResult

IdleSuggestions ==
  /\ ruleBased = <<>>
  /\ suggestions = <<>>
  /\ caught = FALSE
  /\ aiSuggestions = <<>>

IdleExtract ==
  /\ extractorText = <<>>
  /\ scoringKeywords = <<>>
  /\ importantKeywords = <<>>

IdleOther == other = frameOf(<<>>, <<>>, "none")

IdleRoute ==
  /\ requests = <<>>
  /\ reportsFile = <<>>
  /\ mongoReports = {}
  /\ savedLog = <<>>

IdleLater == IdleExtract /\ IdleOther /\ IdleRoute

\* calculateATSScore(resumeText, jobDescription) is entered.
Init ==
  /\ \E input \in ScoreInputs :
       /\ resumeText = input[1]
       /\ jobDescription = input[2]
  /\ pc = "keywordMatch"
  /\ keywordMatchScore = RatOfInt(-1)
  /\ formattingScore = -1
  /\ readabilityScore = -1
  /\ structureScore = -1
  /\ balanceScore = -1
  /\ thrown = "none"
  /\ result = NoResult
  /\ breakdown = NoBreakdown
  /\ strengths = <<>>
  /\ weaknesses = <<>>
  /\ IdleSuggestions
  /\ IdleLater

Next ==
  \/ ScoreKeywordMatch
  \/ ScoreFormatting
  \/ ScoreReadability
  \/ ScoreStructure
  \/ ScoreBalance
  \/ ReturnTotal
  \/ Throw
  \/ CatchReturn

Spec == Init /\ [][Next]_vars

\* generateInsights(breakdown, resumeText, jobDescription) is entered.
InitInsights ==
  /\ breakdown \in Breakdowns
  /\ strengths = <<>>
  /\ weaknesses = <<>>
  /\ pc = "keywordMatchAnalysis"
  /\ resumeText = <<>>
  /\ jobDescription = <<>>
  /\ keywordMatchScore = RatOfInt(-1)
  /\ formattingScore = -1
  /\ readabilityScore = -1
  /\ structureScore = -1
  /\ balanceScore = -1
  /\ thrown = "none"
  /\ result = NoResult
  /\ IdleSuggestions
  /\ IdleLater

NextInsights ==
  \/ KeywordMatchAnalysis
  \/ FormattingAnalysis
  \/ ReadabilityAnalysis
  \/ StructureAnalysis
  \/ BalanceAnalysis

SpecInsights == InitInsights /\ [][NextInsights]_vars

\* The extractors are about to be applied to a text.
InitExtract ==
  /\ extractorText \in ExtractorTexts
  /\ scoringKeywords = <<>>
  /\ importantKeywords = <<>>
  /\ pc = "extractKeywords"
  /\ resumeText = <<>>
  /\ jobDescription = <<>>
  /\ IdleScore
  /\ breakdown = NoBreakdown
  /\ strengths = <<>>
  /\ weaknesses = <<>>
  /\ IdleSuggestions
  /\ IdleOther
  /\ IdleRoute

NextExtract ==
  \/ ExtractKeywords
  \/ ExtractImportantKeywords

SpecExtract == InitExtract /\ [][NextExtract]_vars

\* Analyze requests have reached the handler.
InitAnalyze ==
  /\ requests \in [Requests -> {requestOf(input) : input \in RequestInputs}]
  /\ reportsFile \in StoredBefore
  /\ savedLog = reportsFile
  /\ mongoReports = {}
  /\ pc = "handler"
  /\ resumeText = <<>>
  /\ jobDescription = <<>>
  /\ IdleScore
  /\ breakdown = NoBreakdown
  /\ strengths = <<>>
  /\ weaknesses = <<>>
  /\ IdleSuggestions
  /\ IdleExtract
  /\ IdleOther

NextAnalyze ==
  \/ \E r \in Requests : Validate(r)
  \/ \E r \in Requests : Analyze(r)
  \/ \E r \in Requests : SaveReport(r)
  \/ \E r \in Requests : RespondAfterSave(r)

SpecAnalyze == InitAnalyze /\ [][NextAnalyze]_vars

\* Two invocations of calculateATSScore are entered.
InitTwoCalls ==
  /\ \E input \in TwoCallInputs, otherInput \in TwoCallInputs :
       /\ resumeText = input[1]
       /\ jobDescription = input[2]
       /\ other = frameOf(otherInput[1], otherInput[2], "keywordMatch")
  /\ pc = "keywordMatch"
  /\ IdleScore
  /\ breakdown = NoBreakdown
  /\ strengths = <<>>
  /\ weaknesses = <<>>
  /\ IdleSuggestions
  /\ IdleExtract
  /\ IdleRoute

NextTwoCalls ==
  \/ ScoreKeywordMatch
  \/ ScoreFormatting
  \/ ScoreReadability
  \/ ScoreStructure
  \/ ScoreBalance
  \/ ReturnTotal
  \/ Throw
  \/ CatchReturn
  \/ OtherCalculate
  \/ OtherReturnTotal
  \/ OtherThrow
  \/ OtherCatchReturn

SpecTwoCalls == InitTwoCalls /\ [][NextTwoCalls]_vars

\* generateAISuggestions(resumeText, jobDescription, breakdown) is entered
\* and has called generateRuleBasedSuggestions.
InitSuggestions ==
  /\ \E input \in SuggestionInputs :
       /\ resumeText = input[1]
       /\ jobDescription = input[2]
       /\ breakdown = input[3]
  /\ pc = "missingKeywords"
  /\ ruleBased = <<>>
  /\ suggestions = <<>>
  /\ caught = FALSE
  /\ aiSuggestions = <<>>
  /\ IdleScore
  /\ strengths = <<>>
  /\ weaknesses = <<>>
  /\ IdleLater

NextSuggestions ==
  \/ MissingKeywordsRule
  \/ FormattingIssuesRule
  \/ ActionVerbsRule
  \/ QuantifiableAchievementsRule
  \/ AtsUnfriendlyElementsRule
  \/ PersonalPronounsRule
  \/ ResumeLengthRule
  \/ SectionHeadersRule
  \/ ContactInformationRule
  \/ KeywordsDensityRule
  \/ SkillRecommendationsRule
  \/ CertificationRecommendationsRule
  \/ PushRuleBased
  \/ CatchSuggestionError
  \/ ReturnSuggestions

SpecSuggestions == InitSuggestions /\ [][NextSuggestions]_vars

----------------------------------------------------------------------------
(* The claims.                                                             *)

Fields == {"keywordMatch", "formatting", "readability", "structure", "keywordBalance"}
Range(seq) == {seq[i] : i \in DOMAIN seq}
Returned == pc = "done"
Floor(n, d) == n \div d
Clamp(x) == IF x < 0 THEN 0 ELSE IF x > 100 THEN 100 ELSE x

\* C1: whatever the two texts, the returned totalScore and each of the five
\* breakdown fields are present and are integers in [0,100], on the normal
\* path and on the failure path alike.
C1_ScoresInRange ==
  Returned =>
    /\ result.totalScore \in 0..100
    /\ DOMAIN result.breakdown = Fields
    /\ \A f \in Fields : result.breakdown[f] \in 0..100

\* C1 witness: a normal return where the clamp at 100 acted on the structure
\* score (no penalty, date bonus earned).
C1_Witness ==
  /\ Returned /\ thrown = "none"
  /\ matchCountOfI(resumeText, dateFormatPattern) >= 2
  /\ matchCountOf(resumeText, specialCharPattern) = 0
  /\ result.breakdown.structure = 100
  /\ result.totalScore > 0

\* The all-zero ScoreResult.
ZeroResult ==
  [totalScore |-> 0,
   breakdown |-> [f \in Fields |-> 0]]

\* C2: calculateATSScore never throws: when a sub-score calculator fails,
\* control reaches the catch block, which returns; the result is then exactly
\* totalScore = 0 with all five fields 0, whatever was computed before the
\* failure, and a result returned without a failure holds all five computed
\* sub-scores.
C2_AllOrNothing ==
  /\ thrown # "none" => pc \in {"catch", "done"}
  /\ pc = "catch" => ENABLED CatchReturn
  /\ (Returned /\ thrown # "none") => result = ZeroResult
  /\ (Returned /\ thrown = "none") =>
       /\ result.breakdown.keywordMatch = MathRound(keywordMatchScore)
       /\ result.breakdown.formatting = formattingScore
       /\ result.breakdown.readability = readabilityScore
       /\ result.breakdown.structure = structureScore
       /\ result.breakdown.keywordBalance = balanceScore

\* C2 witness: the balance calculator failed after the other four sub-scores
\* had been computed (some of them positive), and the result was returned.
C2_Witness ==
  /\ Returned /\ thrown = "balance"
  /\ keywordMatchScore.num > 0 /\ formattingScore > 0
  /\ readabilityScore > 0 /\ structureScore > 0
  /\ result = ZeroResult

\* The weighted sum of five scores, in hundredths of kd-ths: k = kn / kd.
WeightedTotal(kn, kd, f, r, s, b) ==
  LET num == 40 * kn + kd * (20 * f + 15 * r + 15 * s + 10 * b)
      den == 100 * kd
  IN  Clamp(Floor(2 * num + den, 2 * den))

\* C3: on the normal path totalScore is the weighted sum 0.40 keywordMatch +
\* 0.20 formatting + 0.15 readability + 0.15 structure + 0.10 keywordBalance
\* of the unrounded sub-scores, rounded and clamped to [0,100], and each
\* breakdown field is its own sub-score rounded.
C3_TotalFromUnrounded ==
  (Returned /\ thrown = "none") =>
    /\ result.totalScore =
         WeightedTotal(keywordMatchScore.num, keywordMatchScore.den,
                       formattingScore, readabilityScore, structureScore, balanceScore)
    /\ result.breakdown.keywordMatch =
         Floor(2 * keywordMatchScore.num + keywordMatchScore.den,
               2 * keywordMatchScore.den)
    /\ result.breakdown.formatting = formattingScore
    /\ result.breakdown.readability = readabilityScore
    /\ result.breakdown.structure = structureScore
    /\ result.breakdown.keywordBalance = balanceScore

\* C3 witness: a normal return whose totalScore differs from the weighted
\* sum of the reported (rounded) breakdown fields.
C3_Witness ==
  /\ Returned /\ thrown = "none"
  /\ result.totalScore #
       WeightedTotal(result.breakdown.keywordMatch, 1, result.breakdown.formatting,
                     result.breakdown.readability, result.breakdown.structure,
                     result.breakdown.keywordBalance)

jdKeywordSet == Range(extractKeywords(jobDescription))
resumeKeywordSet == Range(extractKeywords(resumeText))
KeywordMatchAssigned == keywordMatchScore # RatOfInt(-1)

\* The score of C4: 100 * matched / |jdKeywords|, 0 for no keywords.
KeywordMatchIs(num, den) == keywordMatchScore.num * den = num * keywordMatchScore.den

C4_Formula ==
  LET matched == jdKeywordSet \cap resumeKeywordSet
  IN  /\ jdKeywordSet = {} => KeywordMatchIs(0, 1)
      /\ jdKeywordSet # {} =>
           KeywordMatchIs(100 * Cardinality(matched), Cardinality(jdKeywordSet))
      /\ matched = {} => KeywordMatchIs(0, 1)

\* C4 (as amended): the keyword-match sub-score is 100 * matchedCount /
\* |jdKeywords| (0 if jdKeywords is empty), a keyword being matched by string
\* equality with a resume keyword; it is 0 when the two keyword sets are
\* disjoint and 100 when the resume keyword set is a superset of a non-empty
\* job-description keyword set.
C4_KeywordMatch ==
  KeywordMatchAssigned =>
    /\ C4_Formula
    /\ (jdKeywordSet # {} /\ jdKeywordSet \subseteq resumeKeywordSet) =>
         KeywordMatchIs(100, 1)

\* C4 as stated: ... and 100 whenever the resume keyword set is a superset
\* of the job-description keyword set.
C4_Original ==
  KeywordMatchAssigned =>
    /\ C4_Formula
    /\ jdKeywordSet \subseteq resumeKeywordSet => KeywordMatchIs(100, 1)

\* C4 witness: a job description with several keywords, all of them among
\* the resume's keywords and the resume holding more, scored 100.
C4_Witness ==
  /\ KeywordMatchAssigned
  /\ Cardinality(jdKeywordSet) >= 2
  /\ jdKeywordSet \subseteq resumeKeywordSet
  /\ jdKeywordSet # resumeKeywordSet
  /\ KeywordMatchIs(100, 1)

SectionsDetected(text) == {i \in 1..5 : regexTestI(text, sections[i])}
LengthBonus(wordCount) ==
  IF wordCount \in 300..800 THEN 20 ELSE IF wordCount > 200 THEN 10 ELSE 0

\* C5: the formatting sub-score is min(100, 20 * detected section signals +
\* lengthBonus), lengthBonus being 20 for 300..800 words, else 10 above 200
\* words, else 0; all five markers and exactly 500 words score 100.
C5_Formatting ==
  formattingScore # -1 =>
    /\ formattingScore =
         MathMin(100, 20 * Cardinality(SectionsDetected(resumeText))
                      + LengthBonus(splitLength(resumeText)))
    /\ (SectionsDetected(resumeText) = 1..5 /\ splitLength(resumeText) = 500) =>
         formattingScore = 100

\* C5 witness: all five markers, exactly 500 words, scored 100.
C5_Witness ==
  /\ formattingScore = 100
  /\ SectionsDetected(resumeText) = 1..5
  /\ splitLength(resumeText) = 500

Pronouns(text) == matchCountOfI(text, pronounPattern)
Verbs(text) == matchCountOfI(text, actionVerbPattern)
Sentences(text) == IF sentenceCount(text) = 0 THEN 1 ELSE sentenceCount(text)

\* C6: the readability sub-score is 100, minus 30 if pronouns / words > 0.05
\* else minus 15 if > 0.02, minus 20 if words per sentence > 25 else minus 10
\* if < 10 (no sentence counting as one), plus 20 for 5 or more action verbs
\* else plus 10 for 3 or more, clamped to [0,100]; no pronoun, 15 words per
\* sentence and 6 action verbs give 100.
C6_Readability ==
  readabilityScore # -1 =>
    LET w == splitLength(resumeText)
        p == Pronouns(resumeText)
        n == Sentences(resumeText)
        v == Verbs(resumeText)
        pronounPenalty == IF 100 * p > 5 * w THEN 30 ELSE IF 100 * p > 2 * w THEN 15 ELSE 0
        lengthPenalty == IF w > 25 * n THEN 20 ELSE IF w < 10 * n THEN 10 ELSE 0
        verbBonus == IF v >= 5 THEN 20 ELSE IF v >= 3 THEN 10 ELSE 0
    IN  /\ readabilityScore = Clamp(100 - pronounPenalty - lengthPenalty + verbBonus)
        /\ (p = 0 /\ w = 15 * n /\ v = 6) => readabilityScore = 100

\* C6 witness: no pronoun, two sentences of 15 words on average, 6 action
\* verbs, scored 100.
C6_Witness ==
  /\ readabilityScore = 100
  /\ Pronouns(resumeText) = 0
  /\ sentenceCount(resumeText) = 2
  /\ splitLength(resumeText) = 30
  /\ Verbs(resumeText) = 6

Glyphs(text) == matchCountOf(text, specialCharPattern)
Tabs(text) == matchCountOf(text, {Tab})
Dates(text) == matchCountOfI(text, dateFormatPattern)

\* C7: the structure sub-score is 100, minus 30 for at least one decorative
\* glyph, minus 20 for more than 10 tabs, plus 10 for 2 or more date-like
\* substrings, clamped to [0,100]; one glyph, no tab and one date score 70.
C7_Structure ==
  structureScore # -1 =>
    /\ structureScore =
         Clamp(100 - (IF Glyphs(resumeText) >= 1 THEN 30 ELSE 0)
                   - (IF Tabs(resumeText) > 10 THEN 20 ELSE 0)
                   + (IF Dates(resumeText) >= 2 THEN 10 ELSE 0))
    /\ (Glyphs(resumeText) = 1 /\ Tabs(resumeText) = 0 /\ Dates(resumeText) = 1) =>
         structureScore = 70

\* C7 witness: one glyph, no tab, one date, scored 70.
C7_Witness ==
  /\ structureScore = 70
  /\ Glyphs(resumeText) = 1 /\ Tabs(resumeText) = 0 /\ Dates(resumeText) = 1

\* The summed whole-word occurrences of the job description's keywords.
Occurrences(text, keywords) ==
  LET Occ[i \in 0..Len(text)] ==
        IF i = 0 THEN 0
        ELSE Occ[i - 1] + (IF toLowerCase(text[i].tok) \in keywords THEN text[i].n ELSE 0)
  IN  Occ[Len(text)]

\* C8: with density = 100 * keyword occurrences / resume words, the balance
\* sub-score has base 50 for density < 1, 100 for 1 <= density <= 3, 70 for
\* 3 < density <= 5 and 40 for density > 5, minus 30 under 250 words, else
\* minus 20 above 1000 words, and is at least 0.
C8_Balance ==
  balanceScore # -1 =>
    LET w == splitLength(resumeText)
        k == Occurrences(resumeText, jdKeywordSet)
        base == IF 100 * k < w THEN 50
                ELSE IF 100 * k <= 3 * w THEN 100
                ELSE IF 100 * k <= 5 * w THEN 70
                ELSE 40
        penalty == IF w < 250 THEN 30 ELSE IF w > 1000 THEN 20 ELSE 0
    IN  balanceScore = (IF base - penalty < 0 THEN 0 ELSE base - penalty)

\* C8 witness: one job-description keyword repeated to a density of exactly
\* 1 percent in a resume of 300 words, scored 100 (base 100, no penalty).
C8_Witness ==
  /\ balanceScore = 100
  /\ Cardinality(jdKeywordSet) = 1
  /\ splitLength(resumeText) = 300
  /\ Occurrences(resumeText, jdKeywordSet) = 3

HighThreshold ==
  [keywordMatch |-> 70, formatting |-> 80, readability |-> 75, structure |-> 80,
   keywordBalance |-> 70]
LowThreshold ==
  [keywordMatch |-> 50, formatting |-> 60, readability |-> 60, structure |-> 60,
   keywordBalance |-> 50]
FieldOrder == <<"keywordMatch", "formatting", "readability", "structure", "keywordBalance">>
InsightsReturned == pc = "insightsDone"

\* C9: generateInsights emits the strength of a field exactly when the field
\* is at or above its high threshold (70, 80, 75, 80, 70) and its weakness
\* exactly when it is strictly below its low threshold (50, 60, 60, 60, 50);
\* every field at its high threshold gives five strengths and no weakness.
C9_Thresholds ==
  InsightsReturned =>
    /\ \A f \in Fields :
         /\ strengthText[f] \in Range(strengths) <=> breakdown[f] >= HighThreshold[f]
         /\ weaknessText[f] \in Range(weaknesses) <=> breakdown[f] < LowThreshold[f]
    /\ breakdown = HighThreshold => (Len(strengths) = 5 /\ weaknesses = <<>>)

\* C9 witness: every field exactly at its high threshold, five strengths.
C9_Witness ==
  /\ InsightsReturned
  /\ breakdown = HighThreshold
  /\ Len(strengths) = 5 /\ weaknesses = <<>>

\* How often x occurs in seq.
Count(seq, x) == Cardinality({i \in DOMAIN seq : seq[i] = x})

\* C10: each field contributes at most one string, a strength or a weakness
\* and never both, and none when strictly between its thresholds, so there
\* are at most five strings; each list is in the field order keywordMatch,
\* formatting, readability, structure, keywordBalance.
C10_OnePerFieldInOrder ==
  InsightsReturned =>
    /\ \A f \in Fields :
         /\ Count(strengths, strengthText[f]) + Count(weaknesses, weaknessText[f]) <= 1
         /\ (LowThreshold[f] <= breakdown[f] /\ breakdown[f] < HighThreshold[f]) =>
              Count(strengths, strengthText[f]) + Count(weaknesses, weaknessText[f]) = 0
    /\ Range(strengths) \subseteq Range(strengthText)
    /\ Range(weaknesses) \subseteq Range(weaknessText)
    /\ Len(strengths) + Len(weaknesses) <= 5
    /\ strengths = SelectSeq([i \in 1..5 |-> strengthText[FieldOrder[i]]],
                             LAMBDA x : x \in Range(strengths))
    /\ weaknesses = SelectSeq([i \in 1..5 |-> weaknessText[FieldOrder[i]]],
                              LAMBDA x : x \in Range(weaknesses))

\* C10 witness: two strengths, two weaknesses and one field strictly between
\* its thresholds.
C10_Witness ==
  /\ InsightsReturned
  /\ Len(strengths) = 2 /\ Len(weaknesses) = 2
  /\ breakdown.readability = 60
  /\ breakdown.keywordMatch < 50 /\ breakdown.keywordBalance < 50

----------------------------------------------------------------------------
(* The claims about generateAISuggestions.                                 *)

SuggestionsReturned == pc = "suggestionsDone"

\* C11: generateAISuggestions returns at most 10 suggestions, and they are
\* the prefix of the list the rules produced in evaluation order: its first
\* 10 elements in production order when the rules produced more than 10,
\* all of them in order otherwise.
C11_Top10Prefix ==
  SuggestionsReturned =>
    /\ Len(aiSuggestions) <= 10
    /\ ~caught =>
         IF Len(ruleBased) > 10
         THEN aiSuggestions = [i \in 1..10 |-> ruleBased[i]]
         ELSE aiSuggestions = ruleBased

C11_Witness ==
  /\ SuggestionsReturned
  /\ ~caught
  /\ Len(ruleBased) > 10
  /\ Len(aiSuggestions) = 10

\* The number of suggestions the rule at position i appended in a step.
Appended(i) ==
  IF pc = SuggestionRules[i] THEN Len(ruleBased') - Len(ruleBased) ELSE 0

\* The most suggestions one evaluation of rule i appends: one per condition
\* the rule tests.
MostPerRule(i) == CASE i \in {2, 11} -> 3 [] i = 9 -> 2 [] OTHER -> 1

\* C12 as stated: every one of the 12 numbered rules appends zero or one
\* suggestion per evaluation, never two or more.
C12_Original ==
  [][\A i \in DOMAIN SuggestionRules : Appended(i) \in {0, 1}]_vars

\* C12: every one of the 12 numbered rules appends to the list, and appends
\* at most one suggestion per condition it tests: at most three for rule 2
\* (formatting issues) and rule 11 (skill recommendations), at most two for
\* rule 9 (contact information), zero or one for every other rule.
C12_RuleContribution ==
  [][\A i \in DOMAIN SuggestionRules :
       /\ Appended(i) \in 0..MostPerRule(i)
       /\ pc = SuggestionRules[i] =>
            SubSeq(ruleBased', 1, Len(ruleBased)) = ruleBased]_vars

\* Rule 2 has just appended its three suggestions.
C12_Witness ==
  /\ pc = "actionVerbs"
  /\ Cardinality({i \in DOMAIN ruleBased : ruleBased[i].category = "Structure"}) = 3

\* The suggestion is in the returned list.
Kept(suggestion) ==
  \E j \in DOMAIN aiSuggestions : aiSuggestions[j] = suggestion

\* C13: the list is cut after the rules ran and without regard to priority:
\* a produced suggestion is returned exactly when at most nine others were
\* produced before it, so a high-priority suggestion of a late rule (the
\* React, Python and AWS skill gaps) is dropped while lower-priority
\* suggestions of earlier rules are kept.
C13_TruncationIgnoresPriority ==
  (SuggestionsReturned /\ ~caught) =>
    \A i \in DOMAIN ruleBased : Kept(ruleBased[i]) <=> i <= 10

\* A high-priority skill suggestion is dropped and a medium-priority
\* suggestion of an earlier rule is returned.
C13_Witness ==
  /\ SuggestionsReturned
  /\ ~caught
  /\ \E i, j \in DOMAIN ruleBased :
       /\ i < j
       /\ ruleBased[j].category = "Skills"
       /\ ruleBased[j].priority = "high"
       /\ ~Kept(ruleBased[j])
       /\ ruleBased[i].priority = "medium"
       /\ Kept(ruleBased[i])

----------------------------------------------------------------------------
(* The claims about invocations that run at the same time.                 *)

----------------------------------------------------------------------------
(* The claims about failures of the keyword extractor.                     *)

\* The calculators that call extractKeywords.
ExtractingCalculators == {"keywordMatch", "balance"}

\* C15 as stated: when keyword extraction fails inside calculateKeywordMatch
\* the keyword-match score is reported as 0 and the formatting, readability
\* and structure scores are still computed and reported.
C15_Original ==
  (pc = "done" /\ thrown = "keywordMatch") =>
    /\ result.breakdown.keywordMatch = 0
    /\ result.breakdown.formatting = calculateFormattingScore(resumeText)
    /\ result.breakdown.readability = calculateReadabilityScore(resumeText)
    /\ result.breakdown.structure = calculateStructureScore(resumeText)

\* C15: a failure of keyword extraction inside calculateKeywordMatch or
\* calculateBalanceScore propagates out of the calculator into the catch
\* block of calculateATSScore: after a failure inside calculateKeywordMatch
\* no other calculator is run, and in both cases the returned total and all
\* five sub-scores are 0, whatever the calculators yield for the resume.
C15_ExtractionFailurePropagates ==
  /\ thrown = "keywordMatch" =>
       /\ pc \in {"catch", "done"}
       /\ formattingScore = -1
       /\ readabilityScore = -1
       /\ structureScore = -1
       /\ balanceScore = -1
  /\ (pc = "done" /\ thrown \in ExtractingCalculators) =>
       /\ result.totalScore = 0
       /\ \A f \in DOMAIN result.breakdown : result.breakdown[f] = 0

\* Extraction failed inside calculateKeywordMatch for a resume whose
\* formatting, readability and structure scores are not 0.
C15_Witness ==
  /\ pc = "done"
  /\ thrown = "keywordMatch"
  /\ calculateFormattingScore(resumeText) > 0
  /\ calculateReadabilityScore(resumeText) > 0
  /\ calculateStructureScore(resumeText) > 0
  /\ result.breakdown.formatting = 0

----------------------------------------------------------------------------
(* The claims about the keyword extractors.                                *)

\* The members of a keyword list that only the noun tagger contributed.
NounDerived(list) ==
  {list[i] : i \in DOMAIN list} \cap (nounLexicon \ techSkillPattern)

\* C16 as stated: every keyword list produced by extractKeywords, the
\* extractor used for scoring, holds no noun of length <= 3 and no stop-word:
\* each noun-derived member is longer than 3 characters and is no stop-word.
C16_Original ==
  pc \in {"extractImportantKeywords", "extracted"} =>
    \A word \in NounDerived(scoringKeywords) :
      Len(word) > 3 /\ word \notin stopWordPattern

\* The rank of a keyword class in extractImportantKeywords: technical
\* skills are added first, then nouns, then soft skills.
ClassOf(word) ==
  IF word \in importantSkillPattern THEN 1
  ELSE IF word \in softSkillPattern THEN 3 ELSE 2

\* The position of the first token of the text that reads word.
FirstFound(word) ==
  CHOOSE i \in DOMAIN extractorText :
    /\ toLowerCase(extractorText[i].tok) = word
    /\ \A j \in 1..(i - 1) : toLowerCase(extractorText[j].tok) # word

\* word1 is found before word2 by extractImportantKeywords.
FoundBefore(word1, word2) ==
  \/ ClassOf(word1) < ClassOf(word2)
  \/ ClassOf(word1) = ClassOf(word2) /\ FirstFound(word1) < FirstFound(word2)

\* The lower-cased words of the text.
WordsOfText == {toLowerCase(extractorText[i].tok) : i \in DOMAIN extractorText}

\* Every keyword extractImportantKeywords finds in the text.
ImportantFound ==
  WordsOfText \cap
    (importantSkillPattern \cup softSkillPattern
       \cup {w \in nounLexicon : Len(w) > 3 /\ w \notin stopWordPattern})

\* C17: extractImportantKeywords returns a duplicate-free list of at most 30
\* lower-cased keywords, the first 30 in first-found order (technical skills,
\* then nouns, then soft skills); extractKeywords returns every keyword it
\* finds, however many.
C17_First30 ==
  pc = "extracted" =>
    /\ Len(importantKeywords) = MathMin(30, Cardinality(ImportantFound))
    /\ \A i, j \in DOMAIN importantKeywords :
         i < j => FoundBefore(importantKeywords[i], importantKeywords[j])
    /\ \A i \in DOMAIN importantKeywords :
         /\ importantKeywords[i] \in ImportantFound
         /\ toLowerCase(importantKeywords[i]) = importantKeywords[i]
         /\ \A word \in ImportantFound \ Range(importantKeywords) :
              FoundBefore(importantKeywords[i], word)
    /\ Range(scoringKeywords) = WordsOfText \cap (nounLexicon \cup techSkillPattern)
    /\ Len(scoringKeywords) = Cardinality(Range(scoringKeywords))

\* More than 30 keywords are in the text: the important ones are cut to 30,
\* the nouns and soft skills among them are lost, extractKeywords keeps all.
C17_Witness ==
  /\ pc = "extracted"
  /\ Cardinality(ImportantFound) > 30
  /\ Len(importantKeywords) = 30
  /\ "leadership" \in ImportantFound \ Range(importantKeywords)
  /\ Len(scoringKeywords) > 30

----------------------------------------------------------------------------
(* The claims about the analyze route.                                     *)

\* The request has been answered.
Responded(r) == requests[r].pc = "responded"

\* A report of request r is in the file or in MongoDB.
Stored(r) ==
  \/ \E i \in DOMAIN reportsFile : reportsFile[i].id = r
  \/ r \in mongoReports

\* The job description of the request has fewer than 50 trimmed characters,
\* or the text extracted from its file has fewer than 100 characters.
TooThin(r) ==
  \/ length(trim(requests[r].jobDescription)) < 50
  \/ /\ requests[r].file
     /\ requests[r].parsed # "rejected"
     /\ length(clean(requests[r].extracted)) < 100

\* C18 as stated: for a request with a too thin job description or resume
\* text, calculateATSScore, generateInsights and generateAISuggestions are
\* never invoked, the request is answered with the 400 validation response,
\* and no report is stored.
C18_Original ==
  \A r \in DOMAIN requests :
    TooThin(r) =>
      /\ requests[r].invoked = {}
      /\ ~Stored(r)
      /\ Responded(r) =>
           /\ requests[r].response.status = 400
           /\ ~requests[r].response.success

\* C19 as stated: after any interleaving of analyze requests the reports
\* file holds at most 50 reports, newest-saved first, and exactly the
\* min(50, n) most recently saved of the n reports saved so far.
C19_Original ==
  /\ Len(reportsFile) <= MaxStored
  /\ reportsFile = SubSeq(savedLog, 1, MathMin(MaxStored, Len(savedLog)))

\* The fields of the response that carry the analysis.
Outcome(r) ==
  [f \in {"atsScore", "breakdown", "strengths", "weaknesses", "suggestions"} |->
     requests[r].response.data[f]]

\* The request got as far as the persistence code and has been answered.
AnsweredAfterSaving(r) ==
  Responded(r) /\ requests[r].persistence.file # "none"

\* C20: a persistence failure never changes the outcome: whether or not
\* reading or writing the reports file fails, MongoDB is disconnected, or
\* the MongoDB save throws, the handler answers success: true with the
\* atsScore, breakdown, strengths, weaknesses and suggestions it computed,
\* the same as for any request with the same analysis.
C20_PersistenceNeverChangesOutcome ==
  \A r \in DOMAIN requests :
    AnsweredAfterSaving(r) =>
      /\ requests[r].response.status = 200
      /\ requests[r].response.success
      /\ Outcome(r) =
           [atsScore |-> requests[r].core.totalScore,
            breakdown |-> requests[r].core.breakdown,
            strengths |-> requests[r].core.strengths,
            weaknesses |-> requests[r].core.weaknesses,
            suggestions |-> requests[r].core.suggestions]
      /\ \A q \in DOMAIN requests :
           (AnsweredAfterSaving(q) /\ requests[q].core = requests[r].core) =>
             Outcome(q) = Outcome(r)

\* Two requests with the same analysis: one stored in the file and in
\* MongoDB, the other after a failed file write and a MongoDB save that
\* threw; a third way, the file could not be read.
C20_Witness ==
  \E r, q \in DOMAIN requests :
    /\ AnsweredAfterSaving(r) /\ AnsweredAfterSaving(q)
    /\ requests[r].persistence = [file |-> "saved", mongo |-> "saved"]
    /\ requests[q].persistence = [file |-> "writeFailed", mongo |-> "threw"]
    /\ requests[q].response.success
    /\ requests[q].core.totalScore > 0
    /\ Outcome(q) = Outcome(r)

\* The steps of generateAISuggestions: inside a rule, between the rules and
\* the push, at the return statement, returned.
SuggestionSteps ==
  {SuggestionRules[i] : i \in DOMAIN SuggestionRules}
    \cup {"returnRuleBased", "slice", "suggestionsDone"}

\* C21: generateAISuggestions never rejects: an exception at any rule is
\* caught and control goes on to the return statement; when a rule threw,
\* the returned list is empty even though earlier rules had appended
\* suggestions, so the result is either the first-10 prefix of the complete
\* rule evaluation or the empty list.
C21_EmptyOnThrow ==
  /\ pc \in SuggestionSteps
  /\ caught => pc \in {"slice", "suggestionsDone"}
  /\ SuggestionsReturned =>
       IF caught
       THEN aiSuggestions = <<>>
       ELSE aiSuggestions =
              slice(generateRuleBasedSuggestions(resumeText, jobDescription, breakdown),
                    0, 10)

\* A rule threw after earlier rules had appended suggestions, and the
\* empty list was returned.
C21_Witness ==
  /\ SuggestionsReturned
  /\ caught
  /\ Len(ruleBased) >= 2
  /\ aiSuggestions = <<>>

\* calculateATSScore returned the all-zero result of its catch block to the
\* handler of request r.
Degraded(r) ==
  /\ requests[r].invoked # {}
  /\ requests[r].core.totalScore = catchResult.totalScore
  /\ requests[r].core.breakdown = catchResult.breakdown

\* The five weaknesses in the order of the breakdown's fields.
AllWeaknesses ==
  <<weaknessText.keywordMatch, weaknessText.formatting, weaknessText.readability,
    weaknessText.structure, weaknessText.keywordBalance>>

\* The report of request r as the handler hands it to the stores.
ReportOf(r) == [id |-> r, atsScore |-> requests[r].core.totalScore]

\* C22: when calculateATSScore returns the all-zero result of its catch
\* block, the analyze flow goes on as for any score: generateInsights gives
\* no strengths and the five weaknesses in field order, the handler answers
\* 200 with success true, atsScore 0 and the all-zero breakdown, the report
\* with score 0 is written to the file and to MongoDB whenever the write
\* succeeds, and the response has the fields of any successful response,
\* with no error or message field.
C22_DegradedScoreTreatedAsGenuine ==
  \A r \in DOMAIN requests :
    Degraded(r) =>
      /\ requests[r].core.strengths = <<>>
      /\ requests[r].core.weaknesses = AllWeaknesses
      /\ Responded(r) =>
           /\ requests[r].response.status = 200
           /\ requests[r].response.success
           /\ requests[r].response.data.atsScore = 0
           /\ requests[r].response.data.breakdown = catchResult.breakdown
           /\ requests[r].response.data.strengths = <<>>
           /\ requests[r].response.data.weaknesses = AllWeaknesses
           /\ DOMAIN requests[r].response = {"status", "success", "data"}
           /\ requests[r].persistence.file \in {"saved", "readFailed"} =>
                \E i \in DOMAIN savedLog : savedLog[i] = ReportOf(r)
           /\ requests[r].persistence.mongo = "saved" => r \in mongoReports
           /\ \A q \in DOMAIN requests :
                (/\ AnsweredAfterSaving(q)
                 /\ ~Degraded(q)
                 /\ requests[q].persistence.file = requests[r].persistence.file) =>
                  DOMAIN requests[q].response.data = DOMAIN requests[r].response.data

\* A request whose score came from the catch block was answered and stored
\* in the file and in MongoDB, next to an answered request with a score
\* from the try block.
C22_Witness ==
  \E r, q \in DOMAIN requests :
    /\ Degraded(r) /\ Responded(r)
    /\ requests[r].response.data.atsScore = 0
    /\ requests[r].persistence = [file |-> "saved", mongo |-> "saved"]
    /\ \E i \in DOMAIN reportsFile : reportsFile[i] = ReportOf(r)
    /\ r \in mongoReports
    /\ AnsweredAfterSaving(q) /\ ~Degraded(q)
    /\ requests[q].response.data.atsScore > 0
    /\ requests[q].persistence.file = "saved"

\* The structure score is below the low threshold of generateInsights only
\* for a glyph, more than 10 tabs and fewer than 2 dates; without a glyph
\* and with at most 10 tabs it is 100 whatever the dates.
StructureBonusAndWeakness ==
  /\ (Glyphs(resumeText) = 0 /\ Tabs(resumeText) <= 10) => structureScore = 100
  /\ structureScore < insightThresholds[4][3] =>
       /\ Glyphs(resumeText) >= 1
       /\ Tabs(resumeText) > 10
       /\ Dates(resumeText) < 2

\* C23 as stated: the structure sub-score is one of 50, 60, 70, 80, 100;
\* the date bonus changes it only when a penalty applied, and it is below
\* 60 only for a glyph, more than 10 tabs and fewer than 2 dates.
C23_Original ==
  structureScore # -1 =>
    /\ structureScore \in {50, 60, 70, 80, 100}
    /\ StructureBonusAndWeakness

\* C23: the structure sub-score is one of 50, 60, 70, 80, 90, 100, and 90
\* is the score of more than 10 tabs, no glyph and 2 or more dates; the
\* date bonus changes the score only when a penalty applied, and the score
\* is below 60 only for a glyph, more than 10 tabs and fewer than 2 dates.
C23_StructureValues ==
  structureScore # -1 =>
    /\ structureScore \in {50, 60, 70, 80, 90, 100}
    /\ structureScore = 90 <=>
         (Glyphs(resumeText) = 0 /\ Tabs(resumeText) > 10 /\ Dates(resumeText) >= 2)
    /\ StructureBonusAndWeakness

\* More than 10 tabs, no glyph and two dates: the bonus lifts 80 to 90.
C23_Witness ==
  /\ structureScore = 90
  /\ Glyphs(resumeText) = 0 /\ Tabs(resumeText) > 10 /\ Dates(resumeText) >= 2

\* The three section-absence suggestions of rule 2 and the marker each one
\* tests for.
SectionSuggestions ==
  {[suggestion |-> [category |-> "Structure",
                    message |-> <<"Add a clear \"Work Experience\" section">>,
                    priority |-> "high"],
    marker |-> experiencePattern],
   [suggestion |-> [category |-> "Structure",
                    message |-> <<"Include a dedicated \"Skills\" section">>,
                    priority |-> "high"],
    marker |-> skillsPattern],
   [suggestion |-> [category |-> "Structure",
                    message |-> <<"Add an \"Education\" section">>,
                    priority |-> "medium"],
    marker |-> educationPattern]}

\* The suggestion is in the rules' list or in a list generateAISuggestions
\* holds or returns.
Produced(suggestion) ==
  \/ \E i \in DOMAIN ruleBased : ruleBased[i] = suggestion
  \/ \E i \in DOMAIN suggestions : suggestions[i] = suggestion
  \/ Kept(suggestion)

\* Rule 2 has been evaluated and no rule has thrown.
FormattingIssuesEvaluated ==
  /\ ~caught
  /\ \/ \E i \in 3..Len(SuggestionRules) : pc = SuggestionRules[i]
     \/ pc \in {"returnRuleBased", "slice", "suggestionsDone"}

\* C24: the Work Experience, Skills and Education suggestions are gated on
\* the breakdown: one of them is produced only when breakdown.formatting is
\* below 70 and its marker is absent from the resume text, and once rule 2
\* has run it is in the rules' list exactly then; with a formatting score
\* of 70 or more none of the three is produced, whatever the text lacks.
C24_SectionSuggestionsGated ==
  \A s \in SectionSuggestions :
    /\ Produced(s.suggestion) =>
         (breakdown.formatting < 70 /\ ~regexTestI(resumeText, s.marker))
    /\ breakdown.formatting >= 70 => ~Produced(s.suggestion)
    /\ FormattingIssuesEvaluated =>
         ((\E i \in DOMAIN ruleBased : ruleBased[i] = s.suggestion) <=>
            (breakdown.formatting < 70 /\ ~regexTestI(resumeText, s.marker)))

\* A resume without any of the three markers and a formatting score of
\* exactly 70: the rules ran to the end and none of the three suggestions
\* was produced.
C24_Witness ==
  /\ SuggestionsReturned
  /\ ~caught
  /\ breakdown.formatting = 70
  /\ \A s \in SectionSuggestions :
       ~regexTestI(resumeText, s.marker) /\ ~Produced(s.suggestion)
  /\ Len(aiSuggestions) > 0

====
